---- MODULE Spec2Model ----
(***************************************************************************)
(* Hotel booking backend (Backend/routes/*.py, Backend/utils/*.py).        *)
(* The store (rooms, bookings, billing tables) is a plain row store with   *)
(* no multi-statement transactions; every handler is a sequence of store   *)
(* calls, and each store call is one atomic step of the handler's process. *)
(***************************************************************************)
EXTENDS Integers, Sequences, FiniteSets, TLC

\* ------------------------------------------------------------------ bounds
MaxDay == 3          \* dates are the days 0..MaxDay
MaxBookings == 2     \* booking rows inserted over a run (serial id <= MaxBookings)
MaxTasks == 4      \* cleanup tasks created over a run
MaxBilling == 2      \* billing rows inserted over a run

Days == 0..MaxDay
Today == MaxDay - 2  \* the current date; days before it are in the past

\* ------------------------------------------------------------------ inventory
Rooms == {"R101", "R102"}
NoRoom == "none"
RoomTypeIds == {1, 2}                      \* room_types rows (ids)
RoomTypeIdOf(r) == IF r = "R101" THEN 1 ELSE 2   \* rooms.room_type_id
RoomStatus == {"Available", "Booked", "Occupied", "Maintenance"}
Procs == {1, 2}                            \* concurrent handler invocations

ReqTypeIds == RoomTypeIds \cup {3}          \* room_type_id values a request may carry
MaxAdults(tid) == 2                        \* room_types.max_adults
MaxChildren(tid) == 1                      \* room_types.max_children
DefaultGuests == 2                         \* FrontendBookingRequest.guests when not given
GuestCounts == {DefaultGuests, 4}          \* guest counts a request may carry
BasePrice(tid) == 5000                     \* room_types.base_price
Percents == {-5, 10, 30, 120}              \* vat and discount values a settings request may carry

\* well-formed date ranges (FrontendBookingRequest.validate_dates)
Ranges == {rg \in Days \X Days : rg[1] < rg[2]}
\* admin requests carry unvalidated dates: also an empty range
AdminRanges == Ranges \cup {<<Today + 1, Today + 1>>}

VARIABLES
    rooms,      \* rooms table: room_number -> stored status
    bookings,   \* bookings table: set of rows
    billing,    \* billing table: set of rows
    billing_settings,  \* billing_settings table: the set holding its latest row, if any
    cleanup_manager,   \* the BookingCleanupManager instance and the tasks it created
    nextId,     \* bookings.id serial
    nextBillId, \* billing.id serial
    pc,         \* per process: position in its handler
    loc,        \* per process: the handler's local variables
    lastWrite,  \* history: the rooms.status write made by the last step, if any
    lastResp,   \* history: the response returned by the last step, if any
    lastQuery   \* history: the availability query answered by the last step, if any

vars == <<rooms, bookings, billing, billing_settings, cleanup_manager, nextId, nextBillId, pc, loc, lastWrite, lastResp, lastQuery>>

NoWrite == [op |-> "none", room |-> NoRoom, status |-> "none", bid |-> <<>>]
NoResp == [op |-> "none", proc |-> 0, code |-> 0]
NoQuery == [kind |-> "none"]
NoSettings == {}                            \* the billing_settings table is empty

\* BookingCleanupManager.__init__: no cleanup pending, no booking marked
\* cancelled, and no task created yet
NoManager == [pending_cleanups |-> {}, cancelled_bookings |-> {}, tasks |-> <<>>]

\* ------------------------------------------------------------------ booking ids
\* str(n): decimal digits of n >= 0, most significant first
RECURSIVE Str(_)
Str(n) == IF n < 10 THEN <<n>> ELSE Str(n \div 10) \o <<n % 10>>

\* s.zfill(w)
RECURSIVE ZFill(_, _)
ZFill(s, w) == IF Len(s) >= w THEN s ELSE ZFill(<<0>> \o s, w)

\* int(s) for a digit string
RECURSIVE IntOf(_)
IntOf(s) == IF Len(s) = 0 THEN 0 ELSE 10 * IntOf(SubSeq(s, 1, Len(s) - 1)) + s[Len(s)]

\* the booking id "BK" + digits is kept as its digit string (booking_id[2:])
generate_booking_id(last_id) == ZFill(Str(last_id + 1), 3)

\* select booking_id order by id desc limit 1; int(booking_id[2:]) or 0
LastBookingSuffix ==
    IF bookings = {} THEN 0
    ELSE IntOf((CHOOSE b \in bookings : \A c \in bookings : c.id <= b.id).booking_id)

\* ------------------------------------------------------------------ availability (routes/bookings.py)
\* a closed-interval reading of the overlap test
bk_overlap_closed(check_in, check_out, booking_check_in, booking_check_out) ==
    check_in <= booking_check_out /\ check_out >= booking_check_in

\* the overlap test of bookings.check_room_availability (line 44)
bk_overlap(check_in, check_out, booking_check_in, booking_check_out) ==
    check_in < booking_check_out /\ check_out > booking_check_in

\* a check that blocks only when the target's first night is taken
bk_check_first_night_only(room_number, check_in, check_out, failed) ==
    IF failed THEN FALSE
    ELSE ~\E b \in bookings :
            /\ b.room_number = room_number
            /\ b.status # "Maintenance"
            /\ b.check_in <= check_in /\ check_in < b.check_out

\* bookings.check_room_availability; failed = the bookings read raised
bk_check_room_availability(room_number, check_in, check_out, failed) ==
    IF failed THEN FALSE
    ELSE ~\E b \in bookings :
            /\ b.room_number = room_number
            /\ b.status # "Maintenance"
            /\ bk_overlap(check_in, check_out, b.check_in, b.check_out)

SeqToSet(s) == {s[i] : i \in 1..Len(s)}

\* ------------------------------------------------------------------ processes
NoBid == <<0, 0, 0>>          \* "BK000": an id no booking carries
AllUnpaid == <<>>             \* booking_id = None: sweep every unpaid booking
PaymentStatus == {"Paid", "Pending"}

LocInit ==
    [op |-> "none", check_in |-> 0, check_out |-> 0, status |-> "none",
     todo |-> {}, avail |-> <<>>, room |-> NoRoom, bid |-> NoBid,
     has |-> FALSE, cur |-> "none", cutoff |-> 0, queue |-> {}, guests |-> 0,
     vat |-> 0, discount |-> 0]

Idle(p) == pc[p] = "idle"

\* a request is taken by the first free process (the processes are interchangeable)
Free(p) == Idle(p) /\ \A q \in Procs : (q < p) => ~Idle(q)

Hist(w, r) == lastWrite' = w /\ lastResp' = r /\ lastQuery' = NoQuery

Resp(p, code) == [op |-> loc[p].op, proc |-> p, code |-> code]

\* a rooms.status write, with the booking the handler is working on
RoomWrite(p, r, s) == [op |-> loc[p].op, room |-> r, status |-> s, bid |-> loc[p].bid]

\* the handler returns (or raises an HTTP error): the process is free again
Finish(p) == pc' = [pc EXCEPT ![p] = "idle"] /\ loc' = [loc EXCEPT ![p] = LocInit]

\* a handler that answers in its first step
Answer(p, op, code) ==
    /\ UNCHANGED <<pc, loc>>
    /\ Hist(NoWrite, [op |-> op, proc |-> p, code |-> code])

Begin(p, label, l) ==
    /\ pc' = [pc EXCEPT ![p] = label]
    /\ loc' = [loc EXCEPT ![p] = l]
    /\ Hist(NoWrite, NoResp)

Goto(p, label) == pc' = [pc EXCEPT ![p] = label]

\* requests in flight that have still to insert a booking row / a billing row
BookingsDue == Cardinality({q \in Procs : pc[q] \in {"ga_check", "cb_insert", "ca_insert"}})
BillingDue ==
    Cardinality({q \in Procs :
        \/ pc[q] \in {"ca_insert", "ca_billing", "br_insert", "bf_existing", "bf_insert"}
        \/ pc[q] = "ga_check" /\ loc[q].op = "create_admin_booking"})

\* the run inserts at most MaxBookings booking rows and MaxBilling billing rows
BookingBudget == nextId + BookingsDue <= MaxBookings
BillingBudget == nextBillId + BillingDue <= MaxBilling

\* booking ids a request may name: those in the table and one that is not
TargetIds == {b.booking_id : b \in bookings} \cup {NoBid}

RowsOf(bid) == {b \in bookings : b.booking_id = bid}

\* update bookings set status = 'cancelled', is_cancelled = true where booking_id = bid
CancelRows(bid) ==
    {IF b.booking_id = bid THEN [b EXCEPT !.status = "cancelled", !.is_cancelled = TRUE] ELSE b
        : b \in bookings}

\* update bookings set status = 'confirmed' where booking_id = bid
ConfirmRows(bid) ==
    {IF b.booking_id = bid THEN [b EXCEPT !.status = "confirmed"] ELSE b : b \in bookings}

\* update billing set is_cancelled = true where booking_id = bid
CancelBilling(bid) ==
    {IF x.booking_id = bid THEN [x EXCEPT !.is_cancelled = TRUE] ELSE x : x \in billing}

NewBilling(bid, payment_status) ==
    [id |-> nextBillId, booking_id |-> bid, payment_status |-> payment_status,
     is_cancelled |-> FALSE]

\* a booking row covers today
ActiveToday(b) == b.check_in <= Today /\ Today < b.check_out

Init ==
    /\ rooms = [r \in Rooms |-> "Available"]
    /\ bookings = {}
    /\ billing = {}
    /\ billing_settings = NoSettings
    /\ cleanup_manager = NoManager
    /\ nextId = 1
    /\ nextBillId = 1
    /\ pc = [p \in Procs |-> "idle"]
    /\ loc = [p \in Procs |-> LocInit]
    /\ lastWrite = NoWrite
    /\ lastResp = NoResp
    /\ lastQuery = NoQuery

\* ------------------------------------------------------------------ get_available_rooms_for_type_id
\* lines 85-88: every room of the type is read, whatever its stored status
RoomsOfTypeId(tid) == {r \in Rooms : RoomTypeIdOf(r) = tid}

\* loop body (lines 91-100): one check_room_availability call, that is one
\* bookings read, for the next room in the order the store returned the rooms
ga_check(p) ==
    /\ pc[p] = "ga_check"
    /\ \E r \in loc[p].todo :
         LET ok == bk_check_room_availability(r, loc[p].check_in, loc[p].check_out, FALSE)
         IN loc' = [loc EXCEPT ![p].todo = @ \ {r},
                              ![p].avail = IF ok THEN Append(@, r) ELSE @]
    /\ Hist(NoWrite, NoResp)
    /\ UNCHANGED <<cleanup_manager, billing_settings, rooms, bookings, billing, nextId, nextBillId, pc>>

\* ------------------------------------------------------------------ create_booking (customer)
\* POST /bookings, lines 342-352: dates parsed, room type looked up (404 if
\* unknown), rooms of the type read
create_booking_request(p, guests) ==
    /\ Free(p)
    /\ BookingBudget
    /\ \E tid \in ReqTypeIds, rg \in Ranges :
          IF tid \notin RoomTypeIds
          THEN Answer(p, "create_booking", 404)
          ELSE Begin(p, "ga_check", [LocInit EXCEPT !.op = "create_booking",
                        !.check_in = rg[1], !.check_out = rg[2], !.todo = RoomsOfTypeId(tid),
                        !.guests = guests])
    /\ UNCHANGED <<cleanup_manager, billing_settings, rooms, bookings, billing, nextId, nextBillId>>

\* a request that leaves the guest count to its default
create_booking_start(p) == create_booking_request(p, DefaultGuests)

\* a request with a guest count of its own
create_booking_guests_start(p) == \E guests \in GuestCounts : create_booking_request(p, guests)

\* check_guest_capacity_by_name, lines 53-71 (no handler calls it): the guest
\* count fits max_adults + max_children of the room type
check_guest_capacity_by_name(tid, guests) ==
    LET max_adults == IF MaxAdults(tid) # 0 THEN MaxAdults(tid) ELSE 2
        max_children == IF MaxChildren(tid) # 0 THEN MaxChildren(tid) ELSE 1
    IN guests <= max_adults + max_children

\* lines 355-369: no room -> 400; else the first room, and the read of the
\* latest booking_id
cb_select(p) ==
    /\ pc[p] = "ga_check"
    /\ loc[p].op = "create_booking"
    /\ loc[p].todo = {}
    /\ IF loc[p].avail = <<>>
       THEN /\ Finish(p)
            /\ Hist(NoWrite, Resp(p, 400))
       ELSE /\ loc' = [loc EXCEPT ![p].room = Head(loc[p].avail), ![p].avail = <<>>,
                                  ![p].bid = generate_booking_id(LastBookingSuffix)]
            /\ Goto(p, "cb_insert")
            /\ Hist(NoWrite, NoResp)
    /\ UNCHANGED <<cleanup_manager, billing_settings, rooms, bookings, billing, nextId, nextBillId>>

NewBooking(p, status) ==
    [id |-> nextId, booking_id |-> loc[p].bid, room_number |-> loc[p].room,
     check_in |-> loc[p].check_in, check_out |-> loc[p].check_out,
     status |-> status, is_cancelled |-> FALSE]

\* the status a customer booking is stored with (line 384)
cb_booking_status(requested) == IF requested # "" THEN requested ELSE "pending"

\* lines 384-415: insert the booking row and return
cb_insert(p) ==
    /\ pc[p] = "cb_insert"
    /\ \E requested \in {"", "pending", "confirmed"} :
          bookings' = bookings \cup {NewBooking(p, cb_booking_status(requested))}
    /\ nextId' = nextId + 1
    /\ Finish(p)
    /\ Hist(NoWrite, Resp(p, 200))
    /\ UNCHANGED <<cleanup_manager, billing_settings, rooms, billing, nextBillId>>

\* ------------------------------------------------------------------ create_admin_booking
\* POST /admin/bookings, lines 545-571; the dates of an admin request are not validated
create_admin_booking_start(p) ==
    /\ Free(p)
    /\ BookingBudget
    /\ BillingBudget
    /\ \E tid \in ReqTypeIds, rg \in AdminRanges :
          IF tid \notin RoomTypeIds
          THEN Answer(p, "create_admin_booking", 404)
          ELSE Begin(p, "ga_check", [LocInit EXCEPT !.op = "create_admin_booking",
                        !.check_in = rg[1], !.check_out = rg[2], !.todo = RoomsOfTypeId(tid),
                        !.guests = 2])
    /\ UNCHANGED <<cleanup_manager, billing_settings, rooms, bookings, billing, nextId, nextBillId>>

\* lines 572-611: the requested room if it is in the list (400 if it is
\* not), the first room if none was requested; then the latest booking_id
ca_select(p) ==
    /\ pc[p] = "ga_check"
    /\ loc[p].op = "create_admin_booking"
    /\ loc[p].todo = {}
    /\ \E req \in Rooms \cup {NoRoom} :
         LET avail == loc[p].avail
             reject == avail = <<>> \/ (req # NoRoom /\ req \notin SeqToSet(avail))
         IN IF reject
            THEN /\ Finish(p)
                 /\ Hist(NoWrite, Resp(p, 400))
            ELSE /\ loc' = [loc EXCEPT ![p].room = IF req # NoRoom THEN req ELSE Head(avail),
                                       ![p].avail = <<>>,
                                       ![p].bid = generate_booking_id(LastBookingSuffix)]
                 /\ Goto(p, "ca_insert")
                 /\ Hist(NoWrite, NoResp)
    /\ UNCHANGED <<cleanup_manager, billing_settings, rooms, bookings, billing, nextId, nextBillId>>

\* line 638: insert the booking row with the requested status (default confirmed)
ca_insert(p) ==
    /\ pc[p] = "ca_insert"
    /\ \E st \in {"confirmed", "pending"} :
          /\ bookings' = bookings \cup {NewBooking(p, st)}
          /\ loc' = [loc EXCEPT ![p].status = st]
    /\ nextId' = nextId + 1
    /\ Goto(p, "ca_billing")
    /\ Hist(NoWrite, NoResp)
    /\ UNCHANGED <<cleanup_manager, billing_settings, rooms, billing, nextBillId>>

\* lines 652-662: insert the billing row (Pending); a request that is not
\* "confirmed" returns here
ca_billing(p) ==
    /\ pc[p] = "ca_billing"
    /\ billing' = billing \cup {NewBilling(loc[p].bid, "Pending")}
    /\ nextBillId' = nextBillId + 1
    /\ IF loc[p].status = "confirmed"
       THEN /\ Goto(p, "ca_room")
            /\ UNCHANGED loc
            /\ Hist(NoWrite, NoResp)
       ELSE /\ Finish(p)
            /\ Hist(NoWrite, Resp(p, 200))
    /\ UNCHANGED <<cleanup_manager, billing_settings, rooms, bookings, nextId>>

\* the room status an admin booking writes (lines 666-667)
ca_room_status(check_in) == "Occupied"

ca_room(p) ==
    /\ pc[p] = "ca_room"
    /\ rooms' = [rooms EXCEPT ![loc[p].room] = ca_room_status(loc[p].check_in)]
    /\ Hist(RoomWrite(p, loc[p].room, ca_room_status(loc[p].check_in)), Resp(p, 200))
    /\ Finish(p)
    /\ UNCHANGED <<cleanup_manager, billing_settings, bookings, billing, nextId, nextBillId>>

\* lines 678-684: the billing insert (line 652) or the room update (line 667)
\* raises instead of writing; the handler logs the error and answers 500
ca_write_fails(p) ==
    /\ pc[p] \in {"ca_billing", "ca_room"}
    /\ Finish(p)
    /\ Hist(NoWrite, Resp(p, 500))
    /\ UNCHANGED <<cleanup_manager, billing_settings, rooms, bookings, billing, nextId, nextBillId>>

\* ------------------------------------------------------------------ cancel_booking
\* PUT /bookings/{id}/cancel, lines 982-992: .single() raises unless exactly one row matches
cancel_booking_start(p) ==
    /\ Free(p)
    /\ \E bid \in TargetIds :
          IF Cardinality(RowsOf(bid)) # 1
          THEN Answer(p, "cancel_booking", 500)
          ELSE LET b == CHOOSE b \in RowsOf(bid) : TRUE
               IN Begin(p, "c_booking", [LocInit EXCEPT !.op = "cancel_booking", !.bid = bid,
                            !.room = b.room_number, !.check_in = b.check_in])
    /\ UNCHANGED <<cleanup_manager, billing_settings, rooms, bookings, billing, nextId, nextBillId>>

\* lines 997-1001
c_booking(p) ==
    /\ pc[p] = "c_booking"
    /\ bookings' = CancelRows(loc[p].bid)
    /\ Goto(p, "c_billing")
    /\ Hist(NoWrite, NoResp)
    /\ UNCHANGED <<cleanup_manager, billing_settings, rooms, billing, nextId, nextBillId, loc>>

\* lines 1006-1009
c_billing(p) ==
    /\ pc[p] = "c_billing"
    /\ billing' = CancelBilling(loc[p].bid)
    /\ Goto(p, "c_others")
    /\ Hist(NoWrite, NoResp)
    /\ UNCHANGED <<cleanup_manager, billing_settings, rooms, bookings, nextId, nextBillId, loc>>

\* lines 1014-1020: the other non-cancelled bookings of the room whose
\* check-in is not before the cancelled booking's
other_future_bookings(room_number, bid, check_in_date) ==
    {b \in bookings : /\ b.room_number = room_number
                      /\ b.booking_id # bid
                      /\ b.is_cancelled = FALSE
                      /\ b.check_in >= check_in_date}

c_others(p) ==
    /\ pc[p] = "c_others"
    /\ IF other_future_bookings(loc[p].room, loc[p].bid, loc[p].check_in) = {}
       THEN /\ Goto(p, "c_room")
            /\ UNCHANGED loc
            /\ Hist(NoWrite, NoResp)
       ELSE /\ Finish(p)
            /\ Hist(NoWrite, Resp(p, 200))
    /\ UNCHANGED <<cleanup_manager, billing_settings, rooms, bookings, billing, nextId, nextBillId>>

\* lines 1025-1028
c_room(p) ==
    /\ pc[p] = "c_room"
    /\ rooms' = [rooms EXCEPT ![loc[p].room] = "Available"]
    /\ Hist(RoomWrite(p, loc[p].room, "Available"), Resp(p, 200))
    /\ Finish(p)
    /\ UNCHANGED <<cleanup_manager, billing_settings, bookings, billing, nextId, nextBillId>>

\* ------------------------------------------------------------------ create_billing_record (routes/bookings.py)
\* POST /billing, lines 780-803: the booking is read; any row, whatever its status
create_billing_record_start(p) ==
    /\ Free(p)
    /\ BillingBudget
    /\ \E bid \in TargetIds, ps \in PaymentStatus :
          IF RowsOf(bid) = {}
          THEN Answer(p, "create_billing_record", 404)
          ELSE \E b \in RowsOf(bid) :
                 Begin(p, "br_insert", [LocInit EXCEPT !.op = "create_billing_record",
                          !.bid = bid, !.room = b.room_number, !.status = ps])
    /\ UNCHANGED <<cleanup_manager, billing_settings, rooms, bookings, billing, nextId, nextBillId>>

\* line 830
br_insert(p) ==
    /\ pc[p] = "br_insert"
    /\ billing' = billing \cup {NewBilling(loc[p].bid, loc[p].status)}
    /\ nextBillId' = nextBillId + 1
    /\ Goto(p, "br_confirm")
    /\ Hist(NoWrite, NoResp)
    /\ UNCHANGED <<cleanup_manager, billing_settings, rooms, bookings, nextId, loc>>

\* lines 833-836
br_confirm(p) ==
    /\ pc[p] = "br_confirm"
    /\ bookings' = ConfirmRows(loc[p].bid)
    /\ Goto(p, "br_room")
    /\ Hist(NoWrite, NoResp)
    /\ UNCHANGED <<cleanup_manager, billing_settings, rooms, billing, nextId, nextBillId, loc>>

\* line 839
br_room(p) ==
    /\ pc[p] = "br_room"
    /\ rooms' = [rooms EXCEPT ![loc[p].room] = "Occupied"]
    /\ Hist(RoomWrite(p, loc[p].room, "Occupied"), Resp(p, 200))
    /\ Finish(p)
    /\ UNCHANGED <<cleanup_manager, billing_settings, bookings, billing, nextId, nextBillId>>

\* lines 852-854: the billing insert, the booking update or the room update
\* raises instead of writing; the handler logs the error and answers 500
br_write_fails(p) ==
    /\ pc[p] \in {"br_insert", "br_confirm", "br_room"}
    /\ Finish(p)
    /\ Hist(NoWrite, Resp(p, 500))
    /\ UNCHANGED <<cleanup_manager, billing_settings, rooms, bookings, billing, nextId, nextBillId>>

\* ------------------------------------------------------------------ create_billing_for_booking (routes/billing.py)
\* POST /billing, lines 81-107: the booking must be pending and not cancelled
create_billing_for_booking_start(p) ==
    /\ Free(p)
    /\ BillingBudget
    /\ \E bid \in TargetIds, ps \in PaymentStatus :
          IF RowsOf(bid) = {}
          THEN Answer(p, "create_billing_for_booking", 404)
          ELSE \E b \in RowsOf(bid) :
                 IF b.status # "pending" \/ b.is_cancelled
                 THEN Answer(p, "create_billing_for_booking", 400)
                 ELSE Begin(p, "bf_existing", [LocInit EXCEPT !.op = "create_billing_for_booking",
                          !.bid = bid, !.room = b.room_number, !.check_in = b.check_in,
                          !.status = ps])
    /\ UNCHANGED <<cleanup_manager, billing_settings, rooms, bookings, billing, nextId, nextBillId>>

\* lines 110-122: a billing row for the booking -> 400
bf_existing(p) ==
    /\ pc[p] = "bf_existing"
    /\ IF \E x \in billing : x.booking_id = loc[p].bid
       THEN /\ Finish(p)
            /\ Hist(NoWrite, Resp(p, 400))
       ELSE /\ Goto(p, "bf_insert")
            /\ UNCHANGED loc
            /\ Hist(NoWrite, NoResp)
    /\ UNCHANGED <<cleanup_manager, billing_settings, rooms, bookings, billing, nextId, nextBillId>>

\* lines 165-168
bf_insert(p) ==
    /\ pc[p] = "bf_insert"
    /\ billing' = billing \cup {NewBilling(loc[p].bid, loc[p].status)}
    /\ nextBillId' = nextBillId + 1
    /\ Goto(p, "bf_confirm")
    /\ Hist(NoWrite, NoResp)
    /\ UNCHANGED <<cleanup_manager, billing_settings, rooms, bookings, nextId, loc>>

\* update_room_status_after_payment: the room is written only for a check-in today
payment_marks_occupied(check_in_date) == check_in_date = Today

\* lines 195-203, then lines 223 and 43: a future check-in returns without a room write
bf_confirm(p) ==
    /\ pc[p] = "bf_confirm"
    /\ bookings' = ConfirmRows(loc[p].bid)
    /\ IF payment_marks_occupied(loc[p].check_in)
       THEN /\ Goto(p, "bf_room")
            /\ UNCHANGED loc
            /\ Hist(NoWrite, NoResp)
       ELSE /\ Finish(p)
            /\ Hist(NoWrite, Resp(p, 200))
    /\ UNCHANGED <<cleanup_manager, billing_settings, rooms, billing, nextId, nextBillId>>

\* update_room_status_after_payment lines 46-51
bf_room(p) ==
    /\ pc[p] = "bf_room"
    /\ rooms' = [rooms EXCEPT ![loc[p].room] = "Occupied"]
    /\ Hist(RoomWrite(p, loc[p].room, "Occupied"), Resp(p, 200))
    /\ Finish(p)
    /\ UNCHANGED <<cleanup_manager, billing_settings, bookings, billing, nextId, nextBillId>>

\* lines 173-191: the billing insert raises; nothing was written, 500
bf_insert_fails(p) ==
    /\ pc[p] = "bf_insert"
    /\ Finish(p)
    /\ Hist(NoWrite, Resp(p, 500))
    /\ UNCHANGED <<cleanup_manager, billing_settings, rooms, bookings, billing, nextId, nextBillId>>

\* lines 207-219: the booking update raises; the billing rows of the booking
\* are deleted, 500
bf_confirm_fails(p) ==
    /\ pc[p] = "bf_confirm"
    /\ billing' = {x \in billing : x.booking_id # loc[p].bid}
    /\ Finish(p)
    /\ Hist(NoWrite, Resp(p, 500))
    /\ UNCHANGED <<cleanup_manager, billing_settings, rooms, bookings, nextId, nextBillId>>

\* lines 261-263: the room update of update_room_status_after_payment raises;
\* the handler logs the error and answers 500
bf_room_fails(p) ==
    /\ pc[p] = "bf_room"
    /\ Finish(p)
    /\ Hist(NoWrite, Resp(p, 500))
    /\ UNCHANGED <<cleanup_manager, billing_settings, rooms, bookings, billing, nextId, nextBillId>>

\* ------------------------------------------------------------------ rollback_booking_if_unconfirmed
\* DELETE /bookings/{id}/rollback, lines 1043-1049: no code sets
\* billing_confirmed, so the guard never holds; the 404 is caught and turned into a 500
rollback_start(p) ==
    /\ Free(p)
    /\ \E bid \in TargetIds :
          IF RowsOf(bid) = {}
          THEN Answer(p, "rollback", 500)
          ELSE \E b \in RowsOf(bid) :
                 Begin(p, "rb_room", [LocInit EXCEPT !.op = "rollback", !.bid = bid,
                          !.room = b.room_number])
    /\ UNCHANGED <<cleanup_manager, billing_settings, rooms, bookings, billing, nextId, nextBillId>>

\* line 1052
rb_room(p) ==
    /\ pc[p] = "rb_room"
    /\ rooms' = [rooms EXCEPT ![loc[p].room] = "Available"]
    /\ Hist(RoomWrite(p, loc[p].room, "Available"), NoResp)
    /\ Goto(p, "rb_delete")
    /\ UNCHANGED <<cleanup_manager, billing_settings, bookings, billing, nextId, nextBillId, loc>>

\* line 1055
rb_delete(p) ==
    /\ pc[p] = "rb_delete"
    /\ bookings' = bookings \ RowsOf(loc[p].bid)
    /\ Hist(NoWrite, Resp(p, 200))
    /\ Finish(p)
    /\ UNCHANGED <<cleanup_manager, billing_settings, rooms, billing, nextId, nextBillId>>

\* ------------------------------------------------------------------ call_edge_function_for_cleanup (routes/notifications.py)
\* lines 38-47: the task is armed and sleeps; bookings created before it was
\* armed (serial id below cutoff) are older than the cutoff time when it wakes
sweeper_start(p) ==
    /\ Free(p)
    /\ \E bid \in TargetIds \cup {AllUnpaid} :
          Begin(p, "sw_query", [LocInit EXCEPT !.op = "sweeper", !.bid = bid, !.cutoff = nextId])
    /\ UNCHANGED <<cleanup_manager, billing_settings, rooms, bookings, billing, nextId, nextBillId>>

\* lines 50-59: the named booking whatever its state, or every pending,
\* non-cancelled booking older than the cutoff
bookings_to_cleanup(bid, cutoff) ==
    IF bid # AllUnpaid THEN RowsOf(bid)
    ELSE {b \in bookings : b.status = "pending" /\ b.is_cancelled = FALSE /\ b.id < cutoff}

sw_query(p) ==
    /\ pc[p] = "sw_query"
    /\ LET found == bookings_to_cleanup(loc[p].bid, loc[p].cutoff)
       IN IF found = {}
          THEN /\ Finish(p)
               /\ Hist(NoWrite, Resp(p, 0))
          ELSE /\ loc' = [loc EXCEPT ![p].queue =
                            {<<b.booking_id, b.room_number>> : b \in found}]
               /\ Goto(p, "sw_next")
               /\ Hist(NoWrite, NoResp)
    /\ UNCHANGED <<cleanup_manager, billing_settings, rooms, bookings, billing, nextId, nextBillId>>

\* lines 75-79: billing_check.data[0] is paid -> the booking is skipped
sw_is_paid(x) == x.payment_status \in {"Paid", "paid"}

\* lines 68-79: the next booking of the list and its billing check
sw_next(p) ==
    /\ pc[p] = "sw_next"
    /\ IF loc[p].queue = {}
       THEN /\ Finish(p)
            /\ Hist(NoWrite, Resp(p, 0))
       ELSE \E item \in loc[p].queue :
              LET data == {x \in billing : x.booking_id = item[1]}
              IN \/ /\ \E x \in data : sw_is_paid(x)
                    /\ loc' = [loc EXCEPT ![p].queue = @ \ {item}]
                    /\ UNCHANGED pc
                    /\ Hist(NoWrite, NoResp)
                 \/ /\ data = {} \/ \E x \in data : ~sw_is_paid(x)
                    /\ loc' = [loc EXCEPT ![p].queue = @ \ {item}, ![p].bid = item[1],
                                          ![p].room = item[2], ![p].has = data # {}]
                    /\ Goto(p, "sw_cancel")
                    /\ Hist(NoWrite, NoResp)
    /\ UNCHANGED <<cleanup_manager, billing_settings, rooms, bookings, billing, nextId, nextBillId>>

\* lines 82-86
sw_cancel(p) ==
    /\ pc[p] = "sw_cancel"
    /\ bookings' = CancelRows(loc[p].bid)
    /\ Goto(p, IF loc[p].has THEN "sw_billing" ELSE "sw_others")
    /\ Hist(NoWrite, NoResp)
    /\ UNCHANGED <<cleanup_manager, billing_settings, rooms, billing, nextId, nextBillId, loc>>

\* lines 89-93
sw_billing(p) ==
    /\ pc[p] = "sw_billing"
    /\ billing' = CancelBilling(loc[p].bid)
    /\ Goto(p, "sw_others")
    /\ Hist(NoWrite, NoResp)
    /\ UNCHANGED <<cleanup_manager, billing_settings, rooms, bookings, nextId, nextBillId, loc>>

\* lines 97-112: the loop stops at the first other booking, in the order the
\* store returned them, that starts today or later and is confirmed or
\* pending; the results that some order gives
sw_new_room_status(room_number, bid) ==
    LET deciding == {b \in bookings : /\ b.room_number = room_number
                                      /\ b.booking_id # bid
                                      /\ b.is_cancelled = FALSE
                                      /\ b.check_in >= Today
                                      /\ b.status \in {"confirmed", "pending"}}
    IN IF deciding = {} THEN {"Available"}
       ELSE {IF b.check_in = Today /\ b.status = "confirmed" THEN "Occupied" ELSE "Booked"
                : b \in deciding}

sw_others(p) ==
    /\ pc[p] = "sw_others"
    /\ \E s \in sw_new_room_status(loc[p].room, loc[p].bid) :
          loc' = [loc EXCEPT ![p].status = s]
    /\ Goto(p, "sw_room")
    /\ Hist(NoWrite, NoResp)
    /\ UNCHANGED <<cleanup_manager, billing_settings, rooms, bookings, billing, nextId, nextBillId>>

\* lines 115-124: the room write; then the next booking
sw_room(p) ==
    /\ pc[p] = "sw_room"
    /\ rooms' = [rooms EXCEPT ![loc[p].room] = loc[p].status]
    /\ Hist(RoomWrite(p, loc[p].room, loc[p].status), NoResp)
    /\ Goto(p, "sw_next")
    /\ loc' = [loc EXCEPT ![p].status = "none", ![p].bid = NoBid, ![p].room = NoRoom,
                          ![p].has = FALSE]
    /\ UNCHANGED <<cleanup_manager, billing_settings, bookings, billing, nextId, nextBillId>>

\* ------------------------------------------------------------------ BookingCleanupManager (utils/booking_cleanup.py)
\* _cleanup_after_delay lines 42-55: after the delay, a billing row of any
\* payment status stops the cleanup
cleanup_start(p) ==
    /\ Free(p)
    /\ \E bid \in TargetIds :
          Begin(p, "cm_billing", [LocInit EXCEPT !.op = "cleanup_manager", !.bid = bid])
    /\ UNCHANGED <<cleanup_manager, billing_settings, rooms, bookings, billing, nextId, nextBillId>>

cm_billing(p) ==
    /\ pc[p] = "cm_billing"
    /\ IF \E x \in billing : x.booking_id = loc[p].bid
       THEN /\ Finish(p)
            /\ Hist(NoWrite, Resp(p, 0))
       ELSE /\ Goto(p, "cm_read")
            /\ UNCHANGED loc
            /\ Hist(NoWrite, NoResp)
    /\ UNCHANGED <<cleanup_manager, billing_settings, rooms, bookings, billing, nextId, nextBillId>>

\* lines 58-69: only a booking that is still pending is cleaned up
cm_read(p) ==
    /\ pc[p] = "cm_read"
    /\ IF RowsOf(loc[p].bid) = {}
       THEN /\ Finish(p)
            /\ Hist(NoWrite, Resp(p, 0))
       ELSE \E b \in RowsOf(loc[p].bid) :
              IF b.status # "pending"
              THEN /\ Finish(p)
                   /\ Hist(NoWrite, Resp(p, 0))
              ELSE /\ loc' = [loc EXCEPT ![p].room = b.room_number]
                   /\ Goto(p, "cm_delete")
                   /\ Hist(NoWrite, NoResp)
    /\ UNCHANGED <<cleanup_manager, billing_settings, rooms, bookings, billing, nextId, nextBillId>>

\* _cleanup_booking line 89
cm_delete(p) ==
    /\ pc[p] = "cm_delete"
    /\ bookings' = bookings \ RowsOf(loc[p].bid)
    /\ Goto(p, "cm_room")
    /\ Hist(NoWrite, NoResp)
    /\ UNCHANGED <<cleanup_manager, billing_settings, rooms, billing, nextId, nextBillId, loc>>

\* _cleanup_booking line 93
cm_room(p) ==
    /\ pc[p] = "cm_room"
    /\ rooms' = [rooms EXCEPT ![loc[p].room] = "Available"]
    /\ Hist(RoomWrite(p, loc[p].room, "Available"), Resp(p, 0))
    /\ Finish(p)
    /\ UNCHANGED <<cleanup_manager, billing_settings, bookings, billing, nextId, nextBillId>>

\* ------------------------------------------------------------------ BookingCleanupManager: scheduling (utils/booking_cleanup.py)
\* The manager's methods and the resumed part of a task run on the event loop
\* without awaiting anything that suspends them (the store calls of lines
\* 50-93 are blocking calls), so each is one step. A task is "created" until
\* the loop first runs it, then "sleeping" in line 42; task.cancel() on a task
\* makes the loop throw CancelledError into it the next time it runs it.
pending_cleanups == cleanup_manager.pending_cleanups      \* booking_id -> task, as pairs
cancelled_bookings == cleanup_manager.cancelled_bookings
tasks == cleanup_manager.tasks                            \* in order of creation

Entries(booking_id) == {e \in pending_cleanups : e[1] = booking_id}

\* the booking ids the manager is called with
ManagerIds == {b.booking_id : b \in bookings} \cup {tasks[t].bid : t \in DOMAIN tasks}

\* task.cancel() for the tasks ids: a task that has finished is left alone
task_cancel(ts, ids) ==
    [t \in DOMAIN ts |->
        IF t \in ids
        THEN [ts[t] EXCEPT !.st = IF @ = "created" THEN "cancelled_unstarted"
                                  ELSE IF @ = "sleeping" THEN "cancelling" ELSE @]
        ELSE ts[t]]

\* a call of the manager, recorded with the booking id it was given
Called(op, booking_id) ==
    /\ lastQuery' = [kind |-> op, target |-> <<booking_id>>]
    /\ lastWrite' = NoWrite
    /\ lastResp' = NoResp

\* schedule_cleanup, lines 17-29: the task pending_cleanups holds for the
\* booking is cancelled and a new task takes its place
schedule_booking_cleanup ==
    /\ Len(tasks) < MaxTasks
    /\ \E booking_id \in ManagerIds :
          /\ cleanup_manager' =
                [cleanup_manager EXCEPT
                   !.tasks = Append(task_cancel(@, {e[2] : e \in Entries(booking_id)}),
                                    [bid |-> booking_id, st |-> "created", forced |-> FALSE]),
                   !.pending_cleanups =
                       (@ \ Entries(booking_id)) \cup {<<booking_id, Len(tasks) + 1>>}]
          /\ Called("schedule_cleanup", booking_id)
    /\ UNCHANGED <<billing_settings, rooms, bookings, billing, nextId, nextBillId, pc, loc>>

\* cancel_cleanup, lines 31-36, on the manager m
cancel_cleanup(m, booking_id) ==
    LET found == {e \in m.pending_cleanups : e[1] = booking_id}
    IN [m EXCEPT !.tasks = task_cancel(@, {e[2] : e \in found}),
                 !.pending_cleanups = @ \ found]

cancel_booking_cleanup ==
    /\ \E booking_id \in ManagerIds :
          /\ cleanup_manager' = cancel_cleanup(cleanup_manager, booking_id)
          /\ Called("cancel_cleanup", booking_id)
    /\ UNCHANGED <<billing_settings, rooms, bookings, billing, nextId, nextBillId, pc, loc>>

\* force_cancel_booking, lines 122-126. History: the tasks created for the
\* booking before the call are marked forced.
force_cancel_booking ==
    /\ \E booking_id \in ManagerIds :
          /\ cleanup_manager' =
                LET m == cancel_cleanup(
                           [cleanup_manager EXCEPT !.cancelled_bookings = @ \cup {booking_id}],
                           booking_id)
                IN [m EXCEPT !.tasks =
                      [t \in DOMAIN @ |->
                          IF @[t].bid = booking_id
                          THEN [@[t] EXCEPT !.forced = TRUE] ELSE @[t]]]
          /\ Called("force_cancel_booking", booking_id)
    /\ UNCHANGED <<billing_settings, rooms, bookings, billing, nextId, nextBillId, pc, loc>>

\* the task has finished: line 78-81 drops the entry pending_cleanups holds
\* for the booking, whichever task it refers to
task_finally(t, cancelled) ==
    cleanup_manager' =
       [cleanup_manager EXCEPT !.tasks[t].st = "done",
                               !.cancelled_bookings = cancelled,
                               !.pending_cleanups = @ \ Entries(tasks[t].bid)]

\* the loop runs a new task up to the sleep of line 42
task_start(t) ==
    /\ t \in DOMAIN tasks
    /\ tasks[t].st = "created"
    /\ cleanup_manager' = [cleanup_manager EXCEPT !.tasks[t].st = "sleeping"]
    /\ Hist(NoWrite, NoResp)
    /\ UNCHANGED <<billing_settings, rooms, bookings, billing, nextId, nextBillId, pc, loc>>

\* a task cancelled before the loop first ran it: CancelledError is thrown
\* at its first line, outside the try of line 40
task_dropped(t) ==
    /\ t \in DOMAIN tasks
    /\ tasks[t].st = "cancelled_unstarted"
    /\ cleanup_manager' = [cleanup_manager EXCEPT !.tasks[t].st = "done"]
    /\ Hist(NoWrite, NoResp)
    /\ UNCHANGED <<billing_settings, rooms, bookings, billing, nextId, nextBillId, pc, loc>>

\* a task cancelled in its sleep: lines 74-75, then the finally of lines 78-81
task_cancelled(t) ==
    /\ t \in DOMAIN tasks
    /\ tasks[t].st = "cancelling"
    /\ task_finally(t, cancelled_bookings)
    /\ Hist(NoWrite, NoResp)
    /\ UNCHANGED <<billing_settings, rooms, bookings, billing, nextId, nextBillId, pc, loc>>

\* the delay is over, lines 44-72 and _cleanup_booking lines 89-93: a booking
\* marked cancelled is unmarked and left alone; a booking with a billing
\* row, without a row or not pending is left alone; else its rows are
\* deleted and its room is written Available. Then the finally.
task_wake(t) ==
    /\ t \in DOMAIN tasks
    /\ tasks[t].st = "sleeping"
    /\ LET booking_id == tasks[t].bid
       IN IF booking_id \in cancelled_bookings
          THEN /\ task_finally(t, cancelled_bookings \ {booking_id})
               /\ Hist(NoWrite, NoResp)
               /\ UNCHANGED <<rooms, bookings>>
          ELSE /\ task_finally(t, cancelled_bookings)
               /\ IF \/ \E x \in billing : x.booking_id = booking_id
                     \/ RowsOf(booking_id) = {}
                  THEN /\ Hist(NoWrite, NoResp)
                       /\ UNCHANGED <<rooms, bookings>>
                  ELSE \E b \in RowsOf(booking_id) :
                         IF b.status # "pending"
                         THEN /\ Hist(NoWrite, NoResp)
                              /\ UNCHANGED <<rooms, bookings>>
                         ELSE /\ bookings' = bookings \ RowsOf(booking_id)
                              /\ rooms' = [rooms EXCEPT ![b.room_number] = "Available"]
                              /\ Hist([op |-> "cleanup_manager", room |-> b.room_number,
                                       status |-> "Available", bid |-> booking_id], NoResp)
    /\ UNCHANGED <<billing_settings, billing, nextId, nextBillId, pc, loc>>

\* cleanup_all_expired_bookings, lines 128-135: every pending booking older
\* than the cutoff
cleanup_all_start(p) ==
    /\ Free(p)
    /\ Begin(p, "cl_query", [LocInit EXCEPT !.op = "cleanup_all", !.cutoff = nextId])
    /\ UNCHANGED <<cleanup_manager, billing_settings, rooms, bookings, billing, nextId, nextBillId>>

cl_query(p) ==
    /\ pc[p] = "cl_query"
    /\ loc' = [loc EXCEPT ![p].queue =
                 {<<b.booking_id, b.room_number>> :
                     b \in {c \in bookings : c.status = "pending" /\ c.id < loc[p].cutoff}}]
    /\ Goto(p, "cl_next")
    /\ Hist(NoWrite, NoResp)
    /\ UNCHANGED <<cleanup_manager, billing_settings, rooms, bookings, billing, nextId, nextBillId>>

\* lines 136-144: the next booking of the list; one with a billing row is left alone
cl_next(p) ==
    /\ pc[p] = "cl_next"
    /\ IF loc[p].queue = {}
       THEN /\ Finish(p)
            /\ Hist(NoWrite, Resp(p, 0))
       ELSE \E item \in loc[p].queue :
              IF \E x \in billing : x.booking_id = item[1]
              THEN /\ loc' = [loc EXCEPT ![p].queue = @ \ {item}]
                   /\ UNCHANGED pc
                   /\ Hist(NoWrite, NoResp)
              ELSE /\ loc' = [loc EXCEPT ![p].queue = @ \ {item}, ![p].bid = item[1],
                                         ![p].room = item[2]]
                   /\ Goto(p, "cl_delete")
                   /\ Hist(NoWrite, NoResp)
    /\ UNCHANGED <<cleanup_manager, billing_settings, rooms, bookings, billing, nextId, nextBillId>>

\* _cleanup_booking line 89, called from the loop
cl_delete(p) ==
    /\ pc[p] = "cl_delete"
    /\ bookings' = bookings \ RowsOf(loc[p].bid)
    /\ Goto(p, "cl_room")
    /\ Hist(NoWrite, NoResp)
    /\ UNCHANGED <<cleanup_manager, billing_settings, rooms, billing, nextId, nextBillId, loc>>

\* _cleanup_booking line 93; then the next booking
cl_room(p) ==
    /\ pc[p] = "cl_room"
    /\ rooms' = [rooms EXCEPT ![loc[p].room] = "Available"]
    /\ Hist(RoomWrite(p, loc[p].room, "Available"), NoResp)
    /\ Goto(p, "cl_next")
    /\ loc' = [loc EXCEPT ![p].bid = NoBid, ![p].room = NoRoom]
    /\ UNCHANGED <<cleanup_manager, billing_settings, bookings, billing, nextId, nextBillId>>

\* ------------------------------------------------------------------ store failures in the sweeps
\* a store write of the sweeper raises instead of writing.  Without the
\* handler around the loop body the exception leaves the loop and reaches the
\* handler around the whole function (lines 132-135), which logs and returns
sw_write_fails_abort(p) ==
    /\ pc[p] \in {"sw_cancel", "sw_billing", "sw_room"}
    /\ Finish(p)
    /\ Hist(NoWrite, Resp(p, 0))
    /\ UNCHANGED <<cleanup_manager, billing_settings, rooms, bookings, billing, nextId, nextBillId>>

\* notifications.py lines 126-128: a store write of the sweeper (lines 82, 90,
\* 115) raises instead of writing; the handler around the loop body logs the
\* error and continues with the next booking of the list
sw_write_fails(p) ==
    /\ pc[p] \in {"sw_cancel", "sw_billing", "sw_room"}
    /\ Goto(p, "sw_next")
    /\ Hist(NoWrite, NoResp)
    /\ UNCHANGED <<cleanup_manager, billing_settings, rooms, bookings, billing, nextId, nextBillId, loc>>

\* booking_cleanup.py lines 102-103: a store write of _cleanup_booking (lines
\* 89, 93) raises instead of writing; _cleanup_booking logs the error and
\* returns to the loop of cleanup_all_expired_bookings
cl_write_fails(p) ==
    /\ pc[p] \in {"cl_delete", "cl_room"}
    /\ Goto(p, "cl_next")
    /\ Hist(NoWrite, NoResp)
    /\ UNCHANGED <<cleanup_manager, billing_settings, rooms, bookings, billing, nextId, nextBillId, loc>>

\* ------------------------------------------------------------------ billing settings and amounts (routes/billing.py, routes/bookings.py)
\* PUT /billing-settings, lines 341-359: both values are taken as given and
\* the latest settings row is read
update_billing_settings_start(p) ==
    /\ Free(p)
    /\ \E vat \in Percents, discount \in Percents :
          Begin(p, "bs_write", [LocInit EXCEPT !.op = "update_billing_settings",
                   !.vat = vat, !.discount = discount, !.has = billing_settings # {}])
    /\ UNCHANGED <<cleanup_manager, billing_settings, rooms, bookings, billing, nextId, nextBillId>>

\* lines 361-385: the row read is updated, or a row is inserted if none was read
bs_write(p) ==
    /\ pc[p] = "bs_write"
    /\ billing_settings' = {[vat |-> loc[p].vat, discount |-> loc[p].discount]}
    /\ Finish(p)
    /\ Hist(NoWrite, Resp(p, 200))
    /\ UNCHANGED <<cleanup_manager, rooms, bookings, billing, nextId, nextBillId>>

\* the rates a billing computation reads: the latest settings row, else 13 and 0
vat_rate == IF billing_settings = {} THEN 13 ELSE (CHOOSE x \in billing_settings : TRUE).vat
discount_rate ==
    IF billing_settings = {} THEN 0 ELSE (CHOOSE x \in billing_settings : TRUE).discount

\* Amounts are exact, in units of 1/10000 (rates are whole percents, so
\* base * d/100 and (base - base * d/100) * v/100 are whole in these units).
AmountScale == 10000

\* base - discount + vat, as billing.py lines 147-150, bookings.py lines
\* 811-815 and bookings.py lines 647-650 compute it
amount_total(base_amount) ==
    LET discount_amount == base_amount * discount_rate * 100
        vat_amount == ((base_amount * AmountScale - discount_amount) * vat_rate) \div 100
    IN base_amount * AmountScale - discount_amount + vat_amount

\* "(check_out - check_in).days or 1": billing.py line 145, bookings.py line 646
nights_or_1(check_in, check_out) == IF check_out - check_in # 0 THEN check_out - check_in ELSE 1

\* "max(1, (check_out - check_in).days)": bookings.py line 808
nights_max_1(check_in, check_out) == IF check_out - check_in > 1 THEN check_out - check_in ELSE 1

\* create_billing_for_booking, lines 142-150
bf_total_amount(b) ==
    amount_total(BasePrice(RoomTypeIdOf(b.room_number)) * nights_or_1(b.check_in, b.check_out))

\* create_billing_record, lines 808-815: the rate is the request's room_price
br_total_amount(b, room_price) ==
    amount_total(room_price * nights_max_1(b.check_in, b.check_out))

\* create_admin_booking, lines 646-650: a positive total_amount of the request
\* is stored as it is
ca_total_amount(b, total_amount) ==
    IF total_amount > 0
    THEN total_amount * AmountScale
    ELSE amount_total(BasePrice(RoomTypeIdOf(b.room_number))
                         * nights_or_1(b.check_in, b.check_out))

\* ------------------------------------------------------------------ update_room (routes/rooms.py)
\* check_room_has_active_bookings: a non-cancelled booking covers today
check_room_has_active_bookings(room_number) ==
    \E b \in bookings : b.room_number = room_number /\ b.is_cancelled = FALSE /\ ActiveToday(b)

determine_room_status(room_number, stored_status) ==
    IF \E b \in bookings : b.room_number = room_number /\ b.is_cancelled = FALSE /\ ActiveToday(b)
    THEN "Occupied" ELSE stored_status

\* PUT /rooms/{room_number}, lines 249-255: the room is read, and the status
\* asked for compared with the stored one
update_room_start(p) ==
    /\ Free(p)
    /\ \E r \in Rooms, new_status \in RoomStatus :
          Begin(p, IF new_status = rooms[r] THEN "ur_same" ELSE "ur_active",
                [LocInit EXCEPT !.op = "update_room", !.room = r,
                                !.status = new_status, !.cur = rooms[r]])
    /\ UNCHANGED <<cleanup_manager, billing_settings, rooms, bookings, billing, nextId, nextBillId>>

\* lines 254-256: the status asked for is the stored one: "No changes made"
ur_same(p) ==
    /\ pc[p] = "ur_same"
    /\ Finish(p)
    /\ Hist(NoWrite, Resp(p, 200))
    /\ UNCHANGED <<cleanup_manager, billing_settings, rooms, bookings, billing, nextId, nextBillId>>

\* line 258
ur_active(p) ==
    /\ pc[p] = "ur_active"
    /\ loc' = [loc EXCEPT ![p].has = check_room_has_active_bookings(loc[p].room)]
    /\ Goto(p, "ur_dynamic")
    /\ Hist(NoWrite, NoResp)
    /\ UNCHANGED <<cleanup_manager, billing_settings, rooms, bookings, billing, nextId, nextBillId>>

\* line 259
ur_dynamic(p) ==
    /\ pc[p] = "ur_dynamic"
    /\ loc' = [loc EXCEPT ![p].cur = determine_room_status(loc[p].room, loc[p].cur)]
    /\ Goto(p, "ur_write")
    /\ Hist(NoWrite, NoResp)
    /\ UNCHANGED <<cleanup_manager, billing_settings, rooms, bookings, billing, nextId, nextBillId>>

\* the guards without the one on Available (line 266)
update_room_allows_available(new_status, active, dynamic) ==
    \/ new_status = "Maintenance" /\ (active \/ dynamic = "Occupied")
    \/ new_status = "Occupied" /\ ~active

\* the guards of lines 261-267
update_room_rejected(new_status, active, dynamic) ==
    \/ new_status = "Maintenance" /\ (active \/ dynamic = "Occupied")
    \/ new_status = "Occupied" /\ ~active
    \/ new_status = "Available" /\ active

\* lines 261-269
ur_write(p) ==
    /\ pc[p] = "ur_write"
    /\ IF update_room_rejected(loc[p].status, loc[p].has, loc[p].cur)
       THEN /\ UNCHANGED rooms
            /\ Hist(NoWrite, Resp(p, 400))
       ELSE /\ rooms' = [rooms EXCEPT ![loc[p].room] = loc[p].status]
            /\ Hist(RoomWrite(p, loc[p].room, loc[p].status), Resp(p, 200))
    /\ Finish(p)
    /\ UNCHANGED <<cleanup_manager, billing_settings, bookings, billing, nextId, nextBillId>>

\* ------------------------------------------------------------------ availability queries
\* A query names the reads that raise: list = a read of the list operation
\* itself (room_types, rooms, the batched bookings read; for the per-room
\* check of availability_routes, its rooms read), rooms = the rooms whose
\* per-room bookings read raises.
NoFail == [list |-> FALSE, rooms |-> {}]
Fails(rs) == {[list |-> l, rooms |-> fr] : l \in BOOLEAN, fr \in SUBSET rs}

\* what a caller gets: the rooms reported free, and whether an exception reached it
Returned(free) == [free |-> free, raised |-> FALSE]

\* bookings.get_available_rooms_for_type_id (lines 73-105)
bk_get_available_rooms_for_type_id(room_type_id, check_in, check_out, fail) ==
    IF fail.list \/ room_type_id \notin RoomTypeIds THEN Returned({})
    ELSE Returned({r \in RoomsOfTypeId(room_type_id) :
                     bk_check_room_availability(r, check_in, check_out, r \in fail.rooms)})

\* bookings.get_available_rooms_for_type (lines 107-129): rooms.room_type is
\* the name of the type, rows in Maintenance are not selected
bk_get_available_rooms_for_type(room_type_id, check_in, check_out, fail) ==
    IF fail.list THEN Returned({})
    ELSE Returned({r \in RoomsOfTypeId(room_type_id) :
                     /\ rooms[r] # "Maintenance"
                     /\ bk_check_room_availability(r, check_in, check_out, r \in fail.rooms)})

\* the overlap test of availability_routes (lines 65 and 127)
av_overlap(check_in, check_out, booking_check_in, booking_check_out) ==
    check_in < booking_check_out /\ check_out > booking_check_in

\* availability_routes lines 69 and 129
av_occupied_today(booking_check_in, booking_check_out) ==
    Today >= booking_check_in /\ Today < booking_check_out

\* a check that answers free when a read raises
av_check_fail_open(room_number, check_in, check_out, fail) ==
    IF fail.list \/ room_number \in fail.rooms THEN TRUE
    ELSE IF rooms[room_number] = "Maintenance" THEN FALSE
    ELSE ~\E b \in bookings :
            /\ b.room_number = room_number
            /\ b.is_cancelled = FALSE
            /\ \/ av_overlap(check_in, check_out, b.check_in, b.check_out)
               \/ av_occupied_today(b.check_in, b.check_out)

\* availability_routes.check_room_availability (lines 33-77)
av_check_room_availability(room_number, check_in, check_out, fail) ==
    IF fail.list \/ room_number \in fail.rooms THEN FALSE
    ELSE IF rooms[room_number] = "Maintenance" THEN FALSE
    ELSE ~\E b \in bookings :
            /\ b.room_number = room_number
            /\ b.is_cancelled = FALSE
            /\ \/ av_overlap(check_in, check_out, b.check_in, b.check_out)
               \/ av_occupied_today(b.check_in, b.check_out)

\* availability_routes.get_available_rooms_optimized (lines 83-147): one
\* bookings read for all rooms, filtered by the store on the dates
av_get_available_rooms_optimized(room_type_id, check_in, check_out, fail) ==
    IF fail.list \/ room_type_id \notin RoomTypeIds THEN Returned({})
    ELSE LET rs == {r \in RoomsOfTypeId(room_type_id) : rooms[r] # "Maintenance"}
             fetched == {b \in bookings : /\ b.room_number \in rs
                                          /\ b.is_cancelled = FALSE
                                          /\ b.check_out >= check_in
                                          /\ b.check_in <= check_out}
             occupied_rooms ==
                 {b.room_number : b \in {c \in fetched :
                      \/ av_overlap(check_in, check_out, c.check_in, c.check_out)
                      \/ av_occupied_today(c.check_in, c.check_out)}}
         IN Returned(rs \ occupied_rooms)

AllIdle == \A p \in Procs : Idle(p)

\* a query reads and leaves the store as it found it: each store state is
\* asked each query once, between requests, and nothing continues from the answer
Asking == AllIdle /\ lastQuery = NoQuery

Asked(kind, target, rg, fail, ret) ==
    /\ lastQuery' = [kind |-> kind, target |-> target, check_in |-> rg[1], check_out |-> rg[2],
                     fail |-> fail, free |-> ret.free, raised |-> ret.raised]
    /\ lastWrite' = NoWrite
    /\ lastResp' = NoResp
    /\ UNCHANGED <<cleanup_manager, billing_settings, rooms, bookings, billing, nextId, nextBillId, pc, loc>>

\* a call of bookings.check_room_availability
query_bk_check ==
    /\ Asking
    /\ \E r \in Rooms, rg \in Ranges :
       \E fail \in {NoFail, [list |-> FALSE, rooms |-> {r}]} :
          Asked("bk_check", <<r>>, rg, fail,
                Returned(IF bk_check_room_availability(r, rg[1], rg[2], r \in fail.rooms)
                         THEN {r} ELSE {}))

\* a call of availability_routes.check_room_availability
query_av_check ==
    /\ Asking
    /\ \E r \in Rooms, rg \in Ranges :
       \E fail \in {NoFail, [list |-> TRUE, rooms |-> {}], [list |-> FALSE, rooms |-> {r}]} :
          Asked("av_check", <<r>>, rg, fail,
                Returned(IF av_check_room_availability(r, rg[1], rg[2], fail) THEN {r} ELSE {}))

\* a call of bookings.get_available_rooms_for_type_id
query_bk_list_id ==
    /\ Asking
    /\ \E tid \in RoomTypeIds, rg \in Ranges :
       \E fail \in Fails(RoomsOfTypeId(tid)) :
          Asked("bk_list_id", <<tid>>, rg, fail,
                bk_get_available_rooms_for_type_id(tid, rg[1], rg[2], fail))

\* a call of bookings.get_available_rooms_for_type
query_bk_list_name ==
    /\ Asking
    /\ \E tid \in RoomTypeIds, rg \in Ranges :
       \E fail \in Fails(RoomsOfTypeId(tid)) :
          Asked("bk_list_name", <<tid>>, rg, fail,
                bk_get_available_rooms_for_type(tid, rg[1], rg[2], fail))

\* a call of availability_routes.get_available_rooms_optimized
query_av_list ==
    /\ Asking
    /\ \E tid \in RoomTypeIds, rg \in Ranges, l \in BOOLEAN :
          Asked("av_list", <<tid>>, rg, [list |-> l, rooms |-> {}],
                av_get_available_rooms_optimized(tid, rg[1], rg[2], [list |-> l, rooms |-> {}]))

\* the date ranges a list or a check may be asked about: they may lie
\* beyond the last day a stored booking reaches
TargetRanges == {rg \in (0..MaxDay + 1) \X (0..MaxDay + 1) : rg[1] < rg[2]}

\* get_available_rooms_optimized for the room's type and check_room_availability
\* for the room, on the same store state and range, no read failing
query_av_agree ==
    /\ Asking
    /\ \E r \in Rooms, rg \in TargetRanges :
          /\ lastQuery' =
                [kind |-> "av_agree", target |-> <<r>>, check_in |-> rg[1], check_out |-> rg[2],
                 listed |-> r \in av_get_available_rooms_optimized(
                                     RoomTypeIdOf(r), rg[1], rg[2], NoFail).free,
                 checked |-> av_check_room_availability(r, rg[1], rg[2], NoFail)]
          /\ lastWrite' = NoWrite
          /\ lastResp' = NoResp
          /\ UNCHANGED <<cleanup_manager, billing_settings, rooms, bookings, billing, nextId, nextBillId, pc, loc>>

Query ==
    \/ query_bk_check
    \/ query_av_check
    \/ query_bk_list_id
    \/ query_bk_list_name
    \/ query_av_list

\* ------------------------------------------------------------------ room reports (routes/rooms.py)
\* The reports are computed from the store; the cache in front of them is not
\* modelled (every call finds it empty).
Reported(kind, target, report) ==
    /\ lastQuery' = [kind |-> kind, target |-> target, report |-> report]
    /\ lastWrite' = NoWrite
    /\ lastResp' = NoResp
    /\ UNCHANGED <<cleanup_manager, billing_settings, rooms, bookings, billing, nextId, nextBillId, pc, loc>>

NoFilter == "all"

\* GET /rooms, lines 105-121: each room with its dynamic status; with a status
\* filter, the rooms whose dynamic status is the one asked for
get_rooms(status) ==
    LET listed == {r \in Rooms :
                     status = NoFilter \/ determine_room_status(r, rooms[r]) = status}
    IN [r \in listed |-> determine_room_status(r, rooms[r])]

\* GET /rooms/search, lines 162-191: the dynamic status of the matched rooms,
\* from one batched read of their non-cancelled bookings
search_rooms(matched) ==
    [r \in matched |->
        IF \E b \in bookings : /\ b.room_number = r
                               /\ b.is_cancelled = FALSE
                               /\ b.check_in <= Today
                               /\ Today < b.check_out
        THEN "Occupied" ELSE rooms[r]]

\* get_room_stats_simple, lines 68-79: the rooms counted by dynamic status
get_room_stats_simple ==
    LET counted(st) == Cardinality({r \in Rooms : determine_room_status(r, rooms[r]) = st})
    IN [total |-> Cardinality(Rooms), available |-> counted("Available"),
        occupied |-> counted("Occupied"), maintenance |-> counted("Maintenance")]

query_get_rooms ==
    /\ Asking
    /\ \E status \in {NoFilter, "Available", "Occupied", "Maintenance"} :
          Reported("get_rooms", status, get_rooms(status))

\* the query matches one room number or all of them
query_search_rooms ==
    /\ Asking
    /\ \E matched \in {{r} : r \in Rooms} \cup {Rooms} :
          Reported("search_rooms", matched, search_rooms(matched))

query_room_stats ==
    /\ Asking
    /\ Reported("room_stats", NoFilter, get_room_stats_simple)

\* ------------------------------------------------------------------ specifications
CreateStep(p) ==
    \/ create_booking_start(p)
    \/ ga_check(p)
    \/ cb_select(p)
    \/ cb_insert(p)
    \/ create_admin_booking_start(p)
    \/ ca_select(p)
    \/ ca_insert(p)
    \/ ca_billing(p)
    \/ ca_room(p)

CancelStep(p) ==
    \/ cancel_booking_start(p)
    \/ c_booking(p)
    \/ c_billing(p)
    \/ c_others(p)
    \/ c_room(p)

BillingStep(p) ==
    \/ create_billing_record_start(p)
    \/ br_insert(p)
    \/ br_confirm(p)
    \/ br_room(p)
    \/ create_billing_for_booking_start(p)
    \/ bf_existing(p)
    \/ bf_insert(p)
    \/ bf_confirm(p)
    \/ bf_room(p)

RollbackStep(p) ==
    \/ rollback_start(p)
    \/ rb_room(p)
    \/ rb_delete(p)

SweeperStep(p) ==
    \/ sweeper_start(p)
    \/ sw_query(p)
    \/ sw_next(p)
    \/ sw_cancel(p)
    \/ sw_billing(p)
    \/ sw_others(p)
    \/ sw_room(p)

CleanupStep(p) ==
    \/ cleanup_start(p)
    \/ cm_billing(p)
    \/ cm_read(p)
    \/ cm_delete(p)
    \/ cm_room(p)

UpdateRoomStep(p) ==
    \/ update_room_start(p)
    \/ ur_same(p)
    \/ ur_active(p)
    \/ ur_dynamic(p)
    \/ ur_write(p)

\* one request at a time: a request is taken by the first free process
\* (Free), so when requests do not overlap the first process serves them all
Serial == {p \in Procs : \A q \in Procs : p <= q}

\* booking lifecycle, requests one after the other: creation, cancellation,
\* billing (both implementations) and the sweeper
Next ==
    \E p \in Serial :
        \/ CreateStep(p)
        \/ CancelStep(p)
        \/ BillingStep(p)
        \/ SweeperStep(p)

Spec == Init /\ [][Next]_vars

\* the handlers that reset a room, requests one after the other
RoomNext ==
    \E p \in Serial :
        \/ CreateStep(p)
        \/ CancelStep(p)
        \/ RollbackStep(p)
        \/ SweeperStep(p)
        \/ CleanupStep(p)
        \/ UpdateRoomStep(p)

RoomSpec == Init /\ [][RoomNext]_vars

\* concurrent booking creation: the store calls of the requests interleave
RaceNext == \E p \in Procs : CreateStep(p)

RaceSpec == Init /\ [][RaceNext]_vars

\* availability queries against the stores that customer creation,
\* cancellation and manual room updates produce, requests one after the
\* other; a request starts from a state that holds no answer (Asking)
QueryNext ==
    \/ \E p \in Serial :
          \/ lastQuery = NoQuery /\ create_booking_start(p)
          \/ ga_check(p)
          \/ cb_select(p)
          \/ cb_insert(p)
          \/ lastQuery = NoQuery /\ cancel_booking_start(p)
          \/ c_booking(p)
          \/ c_billing(p)
          \/ c_others(p)
          \/ c_room(p)
          \/ lastQuery = NoQuery /\ update_room_start(p)
          \/ ur_same(p)
          \/ ur_active(p)
          \/ ur_dynamic(p)
          \/ ur_write(p)
    \/ Query

QuerySpec == Init /\ [][QueryNext]_vars

\* the sweeper on its own with the operations that create bookings and
\* billing records, requests one after the other: here only the sweeper cancels
SweepNext ==
    \E p \in Serial :
        \/ CreateStep(p)
        \/ BillingStep(p)
        \/ SweeperStep(p)

SweepSpec == Init /\ [][SweepNext]_vars

\* the rollback against the bookings that customer creation and the two
\* create-billing implementations leave, requests one after the other: here a
\* billing row is written by create-billing only
RollbackNext ==
    \E p \in Serial :
        \/ create_booking_start(p)
        \/ ga_check(p)
        \/ cb_select(p)
        \/ cb_insert(p)
        \/ BillingStep(p)
        \/ RollbackStep(p)

RollbackSpec == Init /\ [][RollbackNext]_vars

\* expiry of unpaid customer bookings: customer creation, create-billing of
\* routes/billing.py and the sweeper, requests one after the other.  A handler
\* or task that has started runs to its end (weak fairness on its steps).
\* No request is bound to arrive, and no code starts the sweeper task:
\* create_booking (lines 333-430) returns without arming a cleanup and no
\* caller of call_edge_function_for_cleanup or of schedule_cleanup exists, so
\* the start steps carry no fairness
ExpiryRunning ==
    \E p \in Serial :
        \/ ga_check(p)
        \/ cb_select(p)
        \/ cb_insert(p)
        \/ bf_existing(p)
        \/ bf_insert(p)
        \/ bf_confirm(p)
        \/ bf_room(p)
        \/ sw_query(p)
        \/ sw_next(p)
        \/ sw_cancel(p)
        \/ sw_billing(p)
        \/ sw_others(p)
        \/ sw_room(p)

ExpiryNext ==
    \E p \in Serial :
        \/ create_booking_start(p)
        \/ ga_check(p)
        \/ cb_select(p)
        \/ cb_insert(p)
        \/ create_billing_for_booking_start(p)
        \/ bf_existing(p)
        \/ bf_insert(p)
        \/ bf_confirm(p)
        \/ bf_room(p)
        \/ SweeperStep(p)

ExpirySpec == Init /\ [][ExpiryNext]_vars /\ WF_vars(ExpiryRunning)

\* the two batch sweeps with store writes that may fail, against the bookings
\* that customer creation and create-billing of routes/billing.py leave,
\* requests one after the other
SweepFaultNext ==
    \E p \in Serial :
        \/ create_booking_start(p)
        \/ ga_check(p)
        \/ cb_select(p)
        \/ cb_insert(p)
        \/ create_billing_for_booking_start(p)
        \/ bf_existing(p)
        \/ bf_insert(p)
        \/ bf_confirm(p)
        \/ bf_room(p)
        \/ SweeperStep(p)
        \/ sw_write_fails(p)
        \/ cleanup_all_start(p)
        \/ cl_query(p)
        \/ cl_next(p)
        \/ cl_delete(p)
        \/ cl_room(p)
        \/ cl_write_fails(p)

SweepFaultSpec == Init /\ [][SweepFaultNext]_vars

\* the room reports against the stores that customer creation and manual
\* room updates produce, requests one after the other
ReportNext ==
    \/ \E p \in Serial :
          \/ lastQuery = NoQuery /\ create_booking_start(p)
          \/ ga_check(p)
          \/ cb_select(p)
          \/ cb_insert(p)
          \/ lastQuery = NoQuery /\ update_room_start(p)
          \/ ur_same(p)
          \/ ur_active(p)
          \/ ur_dynamic(p)
          \/ ur_write(p)
    \/ query_get_rooms
    \/ query_search_rooms
    \/ query_room_stats

ReportSpec == Init /\ [][ReportNext]_vars

\* booking creation with store writes of the admin handler that may fail,
\* requests one after the other
AdminFaultNext ==
    \E p \in Serial :
        \/ CreateStep(p)
        \/ ca_write_fails(p)

AdminFaultSpec == Init /\ [][AdminFaultNext]_vars

\* customer bookings and billing with store writes of both billing handlers
\* that may fail, requests one after the other
BillingFaultNext ==
    \E p \in Serial :
        \/ create_booking_start(p)
        \/ ga_check(p)
        \/ cb_select(p)
        \/ cb_insert(p)
        \/ BillingStep(p)
        \/ br_write_fails(p)
        \/ bf_insert_fails(p)
        \/ bf_confirm_fails(p)
        \/ bf_room_fails(p)

BillingFaultSpec == Init /\ [][BillingFaultNext]_vars

\* the sweeper running while create-billing of routes/billing.py is served:
\* one customer booking, requested while the store is empty and nothing else
\* runs; its payment and the sweep are interleaved step by step
first_booking_start(p) ==
    /\ bookings = {}
    /\ \A q \in Procs \ {p} : pc[q] = "idle"
    /\ create_booking_start(p)

PayRaceNext ==
    \/ \E p \in Serial :
          \/ first_booking_start(p)
          \/ ga_check(p)
          \/ cb_select(p)
          \/ cb_insert(p)
    \/ \E p \in Procs :
          \/ create_billing_for_booking_start(p)
          \/ bf_existing(p)
          \/ bf_insert(p)
          \/ bf_confirm(p)
          \/ bf_room(p)
          \/ SweeperStep(p)

PayRaceSpec == Init /\ [][PayRaceNext]_vars

\* the two availability answers of availability_routes.py on the stores that
\* booking creation and cancellation leave, requests one after the other
AgreeNext ==
    \/ \E p \in Serial :
          \/ CreateStep(p)
          \/ CancelStep(p)
    \/ query_av_agree

AgreeSpec == Init /\ [][AgreeNext]_vars

\* the cleanup manager with one customer booking at a time: the calls of the
\* manager and the steps of its tasks in any order
ManagerNext ==
    \/ \E p \in Serial :
          \/ first_booking_start(p)
          \/ ga_check(p)
          \/ cb_select(p)
          \/ cb_insert(p)
    \/ schedule_booking_cleanup
    \/ cancel_booking_cleanup
    \/ force_cancel_booking
    \/ \E t \in 1..MaxTasks :
          \/ task_start(t)
          \/ task_dropped(t)
          \/ task_cancelled(t)
          \/ task_wake(t)

ManagerSpec == Init /\ [][ManagerNext]_vars

\* booking creation by requests that carry a guest count, one after the other
CapacityNext ==
    \E p \in Serial :
        \/ create_booking_guests_start(p)
        \/ ga_check(p)
        \/ cb_select(p)
        \/ cb_insert(p)
        \/ create_admin_booking_start(p)
        \/ ca_select(p)
        \/ ca_insert(p)
        \/ ca_billing(p)
        \/ ca_room(p)

CapacitySpec == Init /\ [][CapacityNext]_vars

\* the billing settings with the customer bookings they are applied to,
\* requests one after the other
SettingsNext ==
    \E p \in Serial :
        \/ create_booking_start(p)
        \/ ga_check(p)
        \/ cb_select(p)
        \/ cb_insert(p)
        \/ update_billing_settings_start(p)
        \/ bs_write(p)

SettingsSpec == Init /\ [][SettingsNext]_vars

\* the total_amount computations on their own: one booking in the store, over
\* any two days (the dates of an admin request are not validated), settings
\* within their bounds or none, and a request's room_price and total_amount;
\* each writer's computation applied
AmountInit ==
    /\ rooms = [r \in Rooms |-> "Available"]
    /\ \E rg \in Days \X Days :
          bookings = {[id |-> 1, booking_id |-> generate_booking_id(0), room_number |-> "R101",
                       check_in |-> rg[1], check_out |-> rg[2], status |-> "pending",
                       is_cancelled |-> FALSE]}
    /\ billing = {}
    /\ billing_settings \in {NoSettings} \cup
          {{[vat |-> v, discount |-> d]} : v \in {0, 13}, d \in {0, 10}}
    /\ cleanup_manager = NoManager
    /\ nextId = 2
    /\ nextBillId = 1
    /\ pc = [p \in Procs |-> "idle"]
    /\ loc = [p \in Procs |-> LocInit]
    /\ lastWrite = NoWrite
    /\ lastResp = NoResp
    /\ \E room_price \in {5000}, total_amount \in {0, 12000} :
          lastQuery = [kind |-> "amount_input", room_price |-> room_price,
                       total_amount |-> total_amount]

Computed(kind, b, rate, total_amount) ==
    /\ lastQuery' = [kind |-> kind, check_in |-> b.check_in, check_out |-> b.check_out,
                     rate |-> rate, total_amount |-> total_amount]
    /\ UNCHANGED <<cleanup_manager, billing_settings, rooms, bookings, billing, nextId, nextBillId, pc, loc,
                   lastWrite, lastResp>>

\* create_billing_for_booking bills a booking with a well-formed or empty range
amount_bf ==
    /\ lastQuery.kind = "amount_input"
    /\ \E b \in bookings :
          /\ <<b.check_in, b.check_out>> \in AdminRanges
          /\ Computed("bf_total", b, BasePrice(RoomTypeIdOf(b.room_number)), bf_total_amount(b))

amount_br ==
    /\ lastQuery.kind = "amount_input"
    /\ \E b \in bookings :
          Computed("br_total", b, lastQuery.room_price,
                   br_total_amount(b, lastQuery.room_price))

amount_ca ==
    /\ lastQuery.kind = "amount_input"
    /\ \E b \in bookings :
          Computed("ca_total", b, BasePrice(RoomTypeIdOf(b.room_number)),
                   ca_total_amount(b, lastQuery.total_amount))

AmountNext == amount_bf \/ amount_br \/ amount_ca

AmountSpec == AmountInit /\ [][AmountNext]_vars

\* the overlap test on its own: one booking in the store, any two well-formed
\* ranges over one day more than the requests use, each file's test applied
OverlapDays == 0..(MaxDay + 1)
OverlapRanges == {rg \in OverlapDays \X OverlapDays : rg[1] < rg[2]}

OverlapInit ==
    /\ rooms = [r \in Rooms |-> "Available"]
    /\ \E rg \in OverlapRanges :
          bookings = {[id |-> 1, booking_id |-> generate_booking_id(0), room_number |-> "R101",
                       check_in |-> rg[1], check_out |-> rg[2], status |-> "pending",
                       is_cancelled |-> FALSE]}
    /\ billing = {}
    /\ billing_settings = NoSettings
    /\ cleanup_manager = NoManager
    /\ nextId = 2
    /\ nextBillId = 1
    /\ pc = [p \in Procs |-> "idle"]
    /\ loc = [p \in Procs |-> LocInit]
    /\ lastWrite = NoWrite
    /\ lastResp = NoResp
    /\ \E rg \in OverlapRanges :
          lastQuery = [kind |-> "overlap_input", check_in |-> rg[1], check_out |-> rg[2]]

\* bookings.py lines 32-45 on the stored booking
overlap_bk ==
    /\ lastQuery.kind = "overlap_input"
    /\ \E b \in bookings :
          lastQuery' =
              [kind |-> "bk_overlap", check_in |-> lastQuery.check_in,
               check_out |-> lastQuery.check_out,
               booking_check_in |-> b.check_in, booking_check_out |-> b.check_out,
               overlaps |-> bk_overlap(lastQuery.check_in, lastQuery.check_out,
                                       b.check_in, b.check_out),
               reverse |-> bk_overlap(b.check_in, b.check_out,
                                      lastQuery.check_in, lastQuery.check_out),
               free |-> bk_check_room_availability(b.room_number, lastQuery.check_in,
                                                   lastQuery.check_out, FALSE)]
    /\ UNCHANGED <<cleanup_manager, billing_settings, rooms, bookings, billing, nextId, nextBillId, pc, loc, lastWrite, lastResp>>

\* availability_routes.py lines 61-67 on the stored booking
overlap_av ==
    /\ lastQuery.kind = "overlap_input"
    /\ \E b \in bookings :
          lastQuery' =
              [kind |-> "av_overlap", check_in |-> lastQuery.check_in,
               check_out |-> lastQuery.check_out,
               booking_check_in |-> b.check_in, booking_check_out |-> b.check_out,
               overlaps |-> av_overlap(lastQuery.check_in, lastQuery.check_out,
                                       b.check_in, b.check_out),
               reverse |-> av_overlap(b.check_in, b.check_out,
                                      lastQuery.check_in, lastQuery.check_out)]
    /\ UNCHANGED <<cleanup_manager, billing_settings, rooms, bookings, billing, nextId, nextBillId, pc, loc, lastWrite, lastResp>>

OverlapNext == overlap_bk \/ overlap_av

OverlapSpec == OverlapInit /\ [][OverlapNext]_vars

\* ------------------------------------------------------------------ properties

\* a booking that counts as live: not cancelled, pending or confirmed
Live(b) == b.is_cancelled = FALSE /\ b.status \in {"pending", "confirmed"}

HalfOpenOverlap(a, b) == a.check_in < b.check_out /\ b.check_in < a.check_out

\* two distinct rows on one room, both not cancelled
Rivals(a, b) ==
    /\ a.id # b.id
    /\ a.room_number = b.room_number
    /\ Live(a)
    /\ Live(b)

\* C1: after any sequence of completed, non-interleaved customer creations,
\* admin creations, cancellations, billing creations and sweeper runs, no two
\* distinct bookings of one room that are both not cancelled (pending or
\* confirmed) have overlapping half-open date ranges.
C1_NoDoubleBooking ==
    AllIdle => \A a, b \in bookings : Rivals(a, b) => ~HalfOpenOverlap(a, b)

\* two live bookings share a room (back to back), one of them confirmed by billing
C1_Witness ==
    /\ AllIdle
    /\ \E a, b \in bookings : Rivals(a, b) /\ a.check_out = b.check_in /\ a.status = "confirmed"
    /\ billing # {}

\* C2: two concurrent creations for one room type and overlapping ranges,
\* one room of the type free: once both have finished, at most one of the
\* two bookings is stored as a non-cancelled booking of that room.
C2_AtMostOneWinner ==
    AllIdle => \A a, b \in bookings :
                  (a.id # b.id /\ a.room_number = b.room_number
                   /\ a.is_cancelled = FALSE /\ b.is_cancelled = FALSE)
                  => ~HalfOpenOverlap(a, b)

\* C3: no two rows of the bookings table carry the same booking_id, under
\* every interleaving of concurrent customer and admin creations.
C3_UniqueBookingId ==
    \A a, b \in bookings : (a.id # b.id) => (a.booking_id # b.booking_id)

\* another booking of the written room is not cancelled and covers today
BackedToday(w) ==
    \E b \in bookings :
        /\ b.room_number = w.room
        /\ b.is_cancelled = FALSE
        /\ ActiveToday(b)

OtherBackedToday(w) ==
    \E b \in bookings :
        /\ b.room_number = w.room
        /\ b.booking_id # w.bid
        /\ b.is_cancelled = FALSE
        /\ ActiveToday(b)

\* C4: no operation (cancellation, rollback, sweeper, cleanup manager,
\* manual room update) writes Available to a room while a non-cancelled
\* booking of that room (other than the one the operation removes) is
\* active today.
C4_NoAvailableWhileActive ==
    (lastWrite.status = "Available") => ~OtherBackedToday(lastWrite)

\* C5: no operation writes Occupied to a room unless, at the time of the
\* write, a non-cancelled booking of the room contains today.
C5_OccupiedIsBacked ==
    (lastWrite.status = "Occupied") => BackedToday(lastWrite)

Answered == lastQuery.kind \in {"bk_check", "av_check", "bk_list_id", "bk_list_name", "av_list"}
PerRoom == lastQuery.kind \in {"bk_check", "av_check"}

\* the rooms a query was about
Asked_rooms ==
    IF PerRoom THEN {lastQuery.target[1]} ELSE RoomsOfTypeId(lastQuery.target[1])

\* C6: neither per-room check nor any list operation (by type id or by
\* type name, of either file) reports as free a room whose stored status is
\* Maintenance at the time of the query.
C6_MaintenanceBlocks ==
    Answered => \A r \in lastQuery.free : rooms[r] # "Maintenance"

C8_OnlyLiveBookingsBlock ==
    (PerRoom /\ lastQuery.fail = NoFail) =>
        LET r == lastQuery.target[1]
            mine == {b \in bookings : b.room_number = r}
        IN (/\ rooms[r] # "Maintenance"
            /\ \A b \in mine : ActiveToday(b) => b.is_cancelled
            /\ \A b \in mine :
                  (lastQuery.check_in < b.check_out /\ lastQuery.check_out > b.check_in)
                  => b.is_cancelled)
           => r \in lastQuery.free

\* C9: the per-room check answers not free whenever a non-cancelled booking
\* of the room contains today, also when the target range does not overlap it.
C9_TodayOccupancyBlocks ==
    PerRoom =>
        LET r == lastQuery.target[1]
        IN (\E b \in bookings : b.room_number = r /\ b.is_cancelled = FALSE /\ ActiveToday(b))
           => r \notin lastQuery.free

Compared == lastQuery.kind \in {"bk_overlap", "av_overlap"}

\* the two ranges have a night in common
SharesNight(q) ==
    \E d \in OverlapDays :
        /\ q.check_in <= d /\ d < q.check_out
        /\ q.booking_check_in <= d /\ d < q.booking_check_out

\* C10: for well-formed ranges the overlap test of the availability checks
\* is true exactly when targetStart < existingEnd and targetEnd >
\* existingStart (the ranges share a night); it gives the same answer with
\* the ranges exchanged; ranges that meet end to start do not overlap; with
\* a booking of days 0 to 2, the range 1 to 3 is unavailable and 2 to 4 is
\* available.
C10_OverlapRule ==
    Compared =>
        LET q == lastQuery
        IN /\ q.overlaps = (q.check_in < q.booking_check_out /\ q.check_out > q.booking_check_in)
           /\ q.overlaps = SharesNight(q)
           /\ q.overlaps = q.reverse
           /\ (q.check_out = q.booking_check_in \/ q.booking_check_out = q.check_in)
                 => ~q.overlaps
           /\ (q.kind = "bk_overlap") =>
                 /\ q.free = ~q.overlaps
                 /\ (q.booking_check_in = 0 /\ q.booking_check_out = 2
                     /\ q.check_in = 1 /\ q.check_out = 3) => ~q.free
                 /\ (q.booking_check_in = 0 /\ q.booking_check_out = 2
                     /\ q.check_in = 2 /\ q.check_out = 4) => q.free

\* the range that starts on the stored booking's last day is answered free
C10_Witness ==
    /\ lastQuery.kind = "bk_overlap"
    /\ lastQuery.booking_check_in = 0 /\ lastQuery.booking_check_out = 2
    /\ lastQuery.check_in = 2 /\ lastQuery.check_out = 4
    /\ lastQuery.free
    /\ ~lastQuery.overlaps

TerminalStatus == {"cancelled", "completed", "checked_out"}

\* C11: cancelled, completed and checked_out are terminal: once a booking's
\* status is one of them, no later step of any operation changes that
\* booking's status.
C11_TerminalStaysTerminal ==
    [][\A b \in bookings :
          (b.status \in TerminalStatus)
          => \A c \in bookings' : (c.id = b.id) => (c.status = b.status)]_vars

\* the row the last step inserted (bookings.id is a serial)
Newest == {b \in bookings : b.id = nextId - 1}

Created(op) == lastResp.op = op /\ lastResp.code = 200

\* C12: every booking created through the customer creation is stored with
\* status pending, whatever status the request carries.
C12_CustomerBookingIsPending ==
    Created("create_booking") => \A b \in Newest : b.status = "pending"

\* C13: a customer creation with a future check-in leaves the assigned room
\* stored as Booked; with a check-in today the creation leaves the room's
\* stored status as it was.
C13_CustomerCreateRoomStatus ==
    [][(lastResp'.op = "create_booking" /\ lastResp'.code = 200) =>
          \A b \in bookings' \ bookings :
              /\ (b.check_in > Today) => (rooms'[b.room_number] = "Booked")
              /\ (b.check_in = Today) => (rooms'[b.room_number] = rooms[b.room_number])]_vars

\* C14: when an admin creates a confirmed booking, the assigned room's
\* stored status becomes Occupied if the check-in is today and Booked if
\* the check-in is in the future.
C14_AdminCreateRoomStatus ==
    Created("create_admin_booking") =>
        \A b \in Newest :
            (b.status = "confirmed") =>
                /\ (b.check_in = Today) => (rooms[b.room_number] = "Occupied")
                /\ (b.check_in > Today) => (rooms[b.room_number] = "Booked")

BillingOps == {"create_billing_record", "create_billing_for_booking"}

PaidFor(bid, bills) == \E x \in bills : x.booking_id = bid /\ x.payment_status = "Paid"

\* C15: a billing creation changes a room's stored status only for a
\* booking whose check-in is today and that has a paid billing record, and
\* then to Occupied (until then the room stays as the creation left it; for
\* a future check-in the room is not changed); when the billing creation
\* returns, the booking is confirmed, and for a paid check-in today the room
\* is Occupied.
C15_BillingRoomStatus ==
    [][\A p \in Procs :
          (loc[p].op \in BillingOps /\ pc[p] # "idle") =>
              LET mine == {b \in bookings' : b.booking_id = loc[p].bid}
              IN /\ (rooms' # rooms) =>
                        \A b \in mine :
                            /\ b.check_in = Today
                            /\ rooms'[b.room_number] = "Occupied"
                            /\ PaidFor(loc[p].bid, billing')
                 /\ (pc'[p] = "idle" /\ lastResp'.code = 200) =>
                        \A b \in mine :
                            /\ b.status = "confirmed"
                            /\ (b.check_in = Today /\ PaidFor(loc[p].bid, billing'))
                                  => rooms'[b.room_number] = "Occupied"]_vars

\* the other bookings of a room that are not cancelled, in the store bs
OthersOf(room_number, bid, bs) ==
    {b \in bs : b.room_number = room_number /\ b.booking_id # bid /\ b.is_cancelled = FALSE}

\* the step with which a cancellation returns successfully
CancelReturns(p) ==
    /\ loc[p].op = "cancel_booking"
    /\ pc[p] # "idle"
    /\ pc'[p] = "idle"
    /\ lastResp'.code = 200

\* C16: cancelling a booking that is its room's only non-cancelled
\* reservation leaves the room stored Available; cancelling while the
\* room's other non-cancelled reservations all have a future check-in
\* leaves the room stored Booked.
C16_CancelRoomStatus ==
    [][\A p \in Procs :
          CancelReturns(p) =>
              LET others == OthersOf(loc[p].room, loc[p].bid, bookings')
              IN /\ (others = {}) => (rooms'[loc[p].room] = "Available")
                 /\ (others # {} /\ \A o \in others : o.check_in > Today)
                       => (rooms'[loc[p].room] = "Booked")]_vars

\* the room statuses the recomputation rule allows
ExpectedRoomStatus(room_number, bid, bs) ==
    LET others == OthersOf(room_number, bid, bs)
        today == {o \in others : o.check_in = Today}
    IN IF today # {}
       THEN {IF o.status = "confirmed" THEN "Occupied" ELSE "Booked" : o \in today}
       ELSE IF \E o \in others : o.check_in > Today THEN {"Booked"} ELSE {"Available"}

\* C17: when a booking is cancelled or expires, the room's stored status
\* afterwards is the one computed from all other non-cancelled bookings of
\* the room: Occupied or Booked when one starts today (confirmed or
\* pending), before any future booking whatever the order of the rows;
\* otherwise Booked when a future one exists, otherwise Available.
C17_RecomputedRoomStatus ==
    [][\A p \in Procs :
          (CancelReturns(p) \/ (loc[p].op = "sweeper" /\ pc[p] = "sw_room")) =>
              rooms'[loc[p].room] \in ExpectedRoomStatus(loc[p].room, loc[p].bid, bookings')]_vars

\* the sweeper has passed its checks for a booking and its next store call
\* is the cancelling update (notifications.py line 82)
SweeperCancels(p) == loc[p].op = "sweeper" /\ pc[p] = "sw_cancel"

\* C18: the sweeper cancels a booking only if, when it acts, the booking is
\* still pending, not cancelled, without a paid billing record and older
\* than the cutoff; a confirmed booking is never cancelled by it, in the
\* per-booking mode or in the batch mode.
C18_SweeperCancelsOnlyPending ==
    \A p \in Procs :
        SweeperCancels(p) =>
            \A b \in RowsOf(loc[p].bid) :
                /\ b.status = "pending"
                /\ b.is_cancelled = FALSE
                /\ ~PaidFor(b.booking_id, billing)
                /\ b.id < loc[p].cutoff

\* C19: a booking for which a paid billing record exists when the sweeper
\* examines it is skipped: no step the sweeper takes for it changes the
\* bookings, the billing records or a room's status.
C19_SweeperSkipsPaid ==
    [][\A p \in Procs :
          (/\ loc[p].op = "sweeper"
           /\ pc[p] \in {"sw_cancel", "sw_billing", "sw_others", "sw_room"}
           /\ PaidFor(loc[p].bid, billing))
          => (bookings' = bookings /\ billing' = billing /\ rooms' = rooms)]_vars

\* C20: a sweeper run on a booking that is already cancelled and has no
\* billing record (a second run on the same expired booking) skips it: the
\* run does not reach the cancelling update, the room write or the expired
\* notification for it.
C20_SweeperIdempotent ==
    \A p \in Procs :
        (loc[p].op = "sweeper" /\ pc[p] \in {"sw_cancel", "sw_others", "sw_room"}) =>
            ~(/\ \A x \in billing : x.booking_id # loc[p].bid
              /\ \A b \in RowsOf(loc[p].bid) : b.is_cancelled /\ b.status = "cancelled"
              /\ pc[p] = "sw_cancel")

\* ------------------------------------------------------------------ C21
\* the step at which the sweeper or the cleanup manager expires the booking
\* it is working on
Expires(p) == pc[p] \in {"sw_cancel", "cm_delete"}

\* the row is still in the table after the step
Kept(b) == \E c \in bookings' : c.id = b.id

\* C21: a booking expired by the sweeper or by the cleanup manager stays in
\* the bookings table, with status cancelled and is_cancelled true; only the
\* rollback's delete removes a booking row
C21_ExpiredRowIsKept ==
    [][\A p \in Procs : \A b \in bookings :
          /\ Kept(b) \/ \E q \in Procs : pc[q] = "rb_delete"
          /\ Expires(p) /\ b.booking_id = loc[p].bid =>
                \E c \in bookings' : /\ c.id = b.id
                                     /\ c.status = "cancelled"
                                     /\ c.is_cancelled = TRUE]_vars

\* ------------------------------------------------------------------ C22
\* create-billing has confirmed the booking: it has a billing row and its
\* status is confirmed
ConfirmedByBilling(bid) ==
    /\ \E x \in billing : x.booking_id = bid
    /\ \E b \in RowsOf(bid) : b.status = "confirmed"

\* C22: the rollback called on a booking that create-billing has confirmed
\* leaves the booking row and the room status unchanged
C22_RollbackSparesConfirmed ==
    [][\A p \in Procs :
          loc[p].op = "rollback" /\ ConfirmedByBilling(loc[p].bid) =>
             bookings' = bookings /\ rooms' = rooms]_vars

\* ------------------------------------------------------------------ C23
\* the room status cancel_booking leaves for booking b from the present
\* store: Available when no other non-cancelled booking of the room checks in
\* on or after b's check-in (c_others, c_room), else the stored status
CancelLeaves(b) ==
    IF other_future_bookings(b.room_number, b.booking_id, b.check_in) = {}
    THEN "Available"
    ELSE rooms[b.room_number]

\* C23: the room status the sweeper writes when it expires a booking is the
\* one cancel_booking leaves for that booking from the same store
C23_SweeperMatchesCancel ==
    [][\A p \in Procs :
          pc[p] = "sw_room" =>
             \A b \in RowsOf(loc[p].bid) : rooms'[loc[p].room] = CancelLeaves(b)]_vars

\* ------------------------------------------------------------------ C24
\* the booking with serial id i is in the table, pending, not cancelled, and
\* has no billing record
PendingUnbilled(i) ==
    \E b \in bookings : /\ b.id = i
                        /\ b.status = "pending"
                        /\ b.is_cancelled = FALSE
                        /\ \A x \in billing : x.booking_id # b.booking_id

\* C24: no customer booking stays pending without a billing record for ever:
\* the cleanup armed at its creation eventually cancels it
C24_UnpaidEventuallyCancelled ==
    \A i \in 1..MaxBookings : []<>(~PendingUnbilled(i))

\* ------------------------------------------------------------------ C25
\* the step returns from a sweep's loop over its list of bookings
SweepReturns(p) ==
    /\ pc[p] \in {"sw_next", "sw_cancel", "sw_billing", "sw_others", "sw_room",
                  "cl_next", "cl_delete", "cl_room"}
    /\ pc'[p] = "idle"

\* C25: a sweep whose store write fails on one booking still takes every
\* other booking of its list: it returns only when no booking of the list is
\* left, and it returns without an error
C25_FailureDoesNotAbortSweep ==
    [][\A p \in Procs :
          SweepReturns(p) => /\ loc[p].queue = {}
                             /\ lastResp'.proc = p
                             /\ lastResp'.code = 0]_vars

\* a write for one booking of a batch has failed and the sweep is at the head
\* of its loop with another booking of the list still to take
C25_Witness ==
    \E p \in Procs :
        /\ pc[p] \in {"sw_next", "cl_next"}
        /\ loc[p].bid \notin {NoBid, AllUnpaid}
        /\ \E item \in loc[p].queue : item[1] # loc[p].bid

\* ------------------------------------------------------------------ C26
\* the room has a confirmed booking that is not cancelled
HasConfirmedBooking(r) ==
    \E b \in bookings : /\ b.room_number = r
                        /\ b.status = "confirmed"
                        /\ b.is_cancelled = FALSE

\* the room is occupied: stored so, or a non-cancelled booking covers today
IsOccupied(r) == rooms[r] = "Occupied" \/ check_room_has_active_bookings(r)

\* C26: update_room asked for Maintenance on a room that has a confirmed,
\* non-cancelled booking or is occupied answers 400 and leaves rooms unchanged
C26_MaintenanceRejected ==
    [][\A p \in Procs :
          /\ pc[p] = "ur_write"
          /\ loc[p].status = "Maintenance"
          /\ HasConfirmedBooking(loc[p].room) \/ IsOccupied(loc[p].room)
          => rooms' = rooms /\ lastResp'.code = 400]_vars

\* ------------------------------------------------------------------ C27
\* a non-cancelled booking of the room is active today
ActiveBookingToday(r) ==
    \E b \in bookings : /\ b.room_number = r
                        /\ b.is_cancelled = FALSE
                        /\ b.check_in <= Today
                        /\ Today < b.check_out

\* the step answers update_room's request for Available
AnswersAvailable(p) ==
    /\ loc[p].op = "update_room"
    /\ loc[p].status = "Available"
    /\ pc'[p] = "idle"

\* C27 as stated: a request for Available is answered 200 only if no
\* non-cancelled booking of the room is active today; otherwise it answers
\* 400 and leaves rooms unchanged
C27_AvailableOnlyWhenFree ==
    [][\A p \in Procs :
          AnswersAvailable(p) /\ ActiveBookingToday(loc[p].room) =>
             rooms' = rooms /\ lastResp'.code = 400]_vars

\* C27 for a request that differs from the stored status: update_room asked
\* for Available on a room not stored Available writes it only if no
\* non-cancelled booking of the room is active today; otherwise it answers 400
\* and leaves rooms unchanged.  Asked for the status already stored, it
\* answers 200 and writes nothing, whatever bookings exist
C27_ChangeToAvailableOnlyWhenFree ==
    [][\A p \in Procs :
          AnswersAvailable(p) =>
             IF rooms[loc[p].room] = "Available"
             THEN rooms' = rooms /\ lastResp'.code = 200
             ELSE IF ActiveBookingToday(loc[p].room)
                  THEN rooms' = rooms /\ lastResp'.code = 400
                  ELSE rooms' = [rooms EXCEPT ![loc[p].room] = "Available"]
                       /\ lastResp'.code = 200]_vars

\* update_room has read that a booking is active today for the room, not
\* stored Available, that it is asked to set to Available
C27_Witness ==
    \E p \in Procs :
        /\ pc[p] = "ur_write"
        /\ loc[p].status = "Available"
        /\ loc[p].has
        /\ ActiveBookingToday(loc[p].room)
        /\ rooms[loc[p].room] # "Available"

\* ------------------------------------------------------------------ C28
StoredMaintenance == {r \in Rooms : rooms[r] = "Maintenance"}

\* C28: the room list and the room search report Maintenance for every room
\* whose stored status is Maintenance, and the room statistics count every
\* such room as in maintenance, whatever bookings the room has
C28_MaintenanceIsAuthoritative ==
    /\ lastQuery.kind \in {"get_rooms", "search_rooms"} =>
          \A r \in StoredMaintenance \cap DOMAIN lastQuery.report :
             lastQuery.report[r] = "Maintenance"
    /\ lastQuery.kind = "room_stats" =>
          lastQuery.report.maintenance = Cardinality(StoredMaintenance)

\* ------------------------------------------------------------------ C29
\* C29: no booking id has more than one billing record
C29_OneBillingPerBooking ==
    \A x, y \in billing : x.booking_id = y.booking_id => x.id = y.id

\* ------------------------------------------------------------------ C30
\* the step answers 500 to an admin creation whose booking row is inserted
AdminCreateFails(p) ==
    /\ loc[p].op = "create_admin_booking"
    /\ pc[p] \in {"ca_billing", "ca_room"}
    /\ lastResp' = [op |-> "create_admin_booking", proc |-> p, code |-> 500]

\* C30: an admin creation that fails after its booking insert leaves no
\* booking row and no billing row of the booking it was creating, and the
\* room it had picked with the status it had before
C30_FailedAdminCreateIsUndone ==
    [][\A p \in Procs :
          AdminCreateFails(p) =>
             /\ \A b \in bookings' : b.booking_id # loc[p].bid
             /\ \A x \in billing' : x.booking_id # loc[p].bid
             /\ rooms' = rooms]_vars

\* ------------------------------------------------------------------ C31
\* the booking being created has more guests than its room type holds
OverCapacity(p) ==
    /\ loc[p].op \in {"create_booking", "create_admin_booking"}
    /\ loc[p].room # NoRoom
    /\ loc[p].guests > MaxAdults(RoomTypeIdOf(loc[p].room))
                        + MaxChildren(RoomTypeIdOf(loc[p].room))

\* C31: a creation whose guest count exceeds max_adults + max_children of the
\* room type writes nothing, and it ends with a 400
C31_OverCapacityRejected ==
    [][\A p \in Procs :
          OverCapacity(p) =>
             /\ bookings' = bookings /\ billing' = billing /\ rooms' = rooms
             /\ pc'[p] = "idle" => lastResp'.code = 400]_vars

\* ------------------------------------------------------------------ C32
\* C32: booking ids are issued with strictly increasing suffixes.  The row
\* with serial id n holds the n-th id issued (requests one after the other),
\* and n strictly increasing suffixes, the first at least 1, end at n or above
C32_IdsStrictlyIncrease ==
    \A b \in bookings : IntOf(b.booking_id) >= b.id

\* ------------------------------------------------------------------ C33
\* base - discount + vat with nights = max(1, check_out - check_in), in units
\* of 1/AmountScale
ExpectedTotal(rate, check_in, check_out) ==
    LET days == check_out - check_in
        nights == IF days > 1 THEN days ELSE 1
        base == rate * nights
    IN base * (100 - discount_rate) * (100 + vat_rate)

\* C33: the total_amount each writer stores is base - discount + vat for at
\* least one night, and it is not negative
C33_TotalAmount ==
    lastQuery.kind \in {"bf_total", "br_total", "ca_total"} =>
       /\ lastQuery.total_amount =
             ExpectedTotal(lastQuery.rate, lastQuery.check_in, lastQuery.check_out)
       /\ lastQuery.total_amount >= 0

\* ------------------------------------------------------------------ C34
OutOfRange(p) == loc[p].discount \notin 0..100 \/ loc[p].vat \notin 0..30

\* C34: a settings update whose discount is outside [0,100] or whose VAT is
\* outside [0,30] is rejected and leaves the stored settings as they were
C34_OutOfRangeSettingsRejected ==
    [][\A p \in Procs :
          (pc[p] = "bs_write" /\ pc'[p] = "idle" /\ OutOfRange(p)) =>
             /\ billing_settings' = billing_settings
             /\ lastResp'.code # 200]_vars

\* ------------------------------------------------------------------ C35
\* process p's create-billing request reports failure after its billing insert
BillingFailsAfterInsert(p) ==
    /\ pc[p] \in {"br_confirm", "br_room", "bf_confirm", "bf_room"}
    /\ pc'[p] = "idle"
    /\ lastResp'.code = 500

\* C35: when create-billing fails after its billing insert, the inserted
\* record is removed again, a booking that create_billing_for_booking found
\* pending is pending, and the rooms are as stored
C35_FailedBillingIsCompensated ==
    [][\A p \in Procs :
          BillingFailsAfterInsert(p) =>
             /\ ~\E x \in billing' : x.booking_id = loc[p].bid /\ x.id = nextBillId - 1
             /\ loc[p].op = "create_billing_for_booking" =>
                   \A b \in bookings' : b.booking_id = loc[p].bid => b.status = "pending"
             /\ rooms' = rooms]_vars

\* ------------------------------------------------------------------ C36
LiveBilling(b) == \E x \in billing : x.booking_id = b.booking_id /\ ~x.is_cancelled

\* C36: the sweeper and create-billing of routes/billing.py, interleaved on a
\* booking, have never left it cancelled with a live billing record, nor
\* cancelled with status confirmed, once both have returned
C36_PaidIsNeverCancelled ==
    (\A p \in Procs : pc[p] = "idle") =>
       \A b \in bookings :
          b.is_cancelled => ~LiveBilling(b) /\ b.status # "confirmed"

\* ------------------------------------------------------------------ C37
\* C37: for every booking row, is_cancelled is true exactly when its status
\* is cancelled
C37_CancelledFlagMatchesStatus ==
    \A b \in bookings : b.is_cancelled <=> b.status = "cancelled"

\* ------------------------------------------------------------------ C38
\* C38: a room is in the list of get_available_rooms_optimized exactly when
\* check_room_availability answers true for it, on the same store state and
\* date range
C38_ListAgreesWithCheck ==
    lastQuery.kind = "av_agree" => (lastQuery.listed <=> lastQuery.checked)

\* ------------------------------------------------------------------ C39
\* a task of the booking that the loop will still run to its cleanup
WillRun(booking_id) ==
    \E t \in DOMAIN tasks : tasks[t].bid = booking_id /\ tasks[t].st \in {"created", "sleeping"}

\* C39: when cancel_cleanup(b) has returned, no task for b is left that will
\* still run
C39_CancelLeavesNoTask ==
    lastQuery.kind = "cancel_cleanup" => ~WillRun(lastQuery.target[1])

\* ------------------------------------------------------------------ C40
\* every task of t's booking was created before force_cancel_booking was
\* called for it
AllBeforeForce(t) ==
    \A u \in DOMAIN tasks : tasks[u].bid = tasks[t].bid => tasks[u].forced

\* C40: with every task of b scheduled before force_cancel_booking(b) was
\* called, a task that wakes after the call leaves b's row and the rooms as
\* they are
C40_ForcedTaskLeavesBooking ==
    [][\A t \in DOMAIN tasks :
          (AllBeforeForce(t) /\ tasks[t].st = "sleeping" /\ tasks'[t].st = "done") =>
             (bookings' = bookings /\ rooms' = rooms)]_vars

====
